---- MODULE Spec2Model ----
(***************************************************************************)
(* A model of the ZOON codec of zoon-go: the encoder (encode,              *)
(* encodeTabular, encodeInline, detectAliases, serializeValue) and the     *)
(* decoder (decode, decodeTabular, decodeInline, tokenizeRow,              *)
(* setDeepField, setField, parsePrimitive).                                *)
(*                                                                         *)
(* A Go string is a sequence of one-character strings, one per byte, so    *)
(* that replacing, splitting, joining and parsing are computed as the code *)
(* computes them.                                                          *)
(***************************************************************************)
EXTENDS Integers, Sequences, FiniteSets, TLC

VARIABLES pc, gotype, input, doc, target, err, locals

vars == <<pc, gotype, input, doc, target, err, locals>>

(***************************************************************************)
(* Bytes and strings                                                       *)
(***************************************************************************)

\* The printable ASCII characters in byte order, starting at byte 32 (byte 96,
\* the grave accent, is written by its code point).
Ascii ==
    << " ", "!", "\"", "#", "$", "%", "&", "'", "(", ")", "*", "+", ",", "-", ".", "/",
       "0", "1", "2", "3", "4", "5", "6", "7", "8", "9", ":", ";", "<", "=", ">", "?",
       "@", "A", "B", "C", "D", "E", "F", "G", "H", "I", "J", "K", "L", "M", "N", "O",
       "P", "Q", "R", "S", "T", "U", "V", "W", "X", "Y", "Z", "[", "\\", "]", "^", "_",
       "U+96", "a", "b", "c", "d", "e", "f", "g", "h", "i", "j", "k", "l", "m", "n", "o",
       "p", "q", "r", "s", "t", "u", "v", "w", "x", "y", "z", "{", "|", "}", "~" >>

AsciiCode ==
    [c \in {Ascii[i] : i \in 1..Len(Ascii)} |-> 31 + (CHOOSE i \in 1..Len(Ascii) : Ascii[i] = c)]

\* The byte value of a character; a character outside ASCII (the result of a
\* rune conversion) orders after every ASCII byte.
Code(c) ==
    IF c = "\n" THEN 10
    ELSE IF c = "\t" THEN 9
    ELSE IF c \in DOMAIN AsciiCode THEN AsciiCode[c]
    ELSE 255

Digits == {"0", "1", "2", "3", "4", "5", "6", "7", "8", "9"}

DigitVal(c) == Code(c) - 48

\* string(rune(n)): the one-character string holding code point n.
RuneString(n) ==
    IF n \in 32..126 THEN <<Ascii[n - 31]>>
    ELSE IF n = 10 THEN <<"\n">>
    ELSE IF n = 9 THEN <<"\t">>
    ELSE IF n < 0 \/ n > 1114111 \/ n \in 55296..57343 THEN <<"U+FFFD">>
    ELSE <<"U+" \o ToString(n)>>

\* strings.ToLower on one byte.
ToLower(c) == IF Code(c) \in 65..90 THEN Ascii[Code(c) + 32 - 31] ELSE c

LowerStr(s) == [i \in 1..Len(s) |-> ToLower(s[i])]

\* strings.EqualFold, on ASCII.
EqualFold(a, b) == LowerStr(a) = LowerStr(b)

\* a < b for Go strings: bytewise lexicographic order.
RECURSIVE StrLess(_, _)
StrLess(a, b) ==
    IF b = <<>> THEN FALSE
    ELSE IF a = <<>> THEN TRUE
    ELSE IF Code(a[1]) # Code(b[1]) THEN Code(a[1]) < Code(b[1])
    ELSE StrLess(Tail(a), Tail(b))

\* sort.Strings on the elements of a set of strings.
RECURSIVE SortStrings(_)
SortStrings(S) ==
    IF S = {} THEN <<>>
    ELSE LET m == CHOOSE x \in S : \A y \in S \ {x} : StrLess(x, y)
         IN  <<m>> \o SortStrings(S \ {m})

HasPrefix(s, p) == Len(s) >= Len(p) /\ SubSeq(s, 1, Len(p)) = p

HasSuffix(s, p) == Len(s) >= Len(p) /\ SubSeq(s, Len(s) - Len(p) + 1, Len(s)) = p

\* s[from:] with from a Go (0-based) index.
From(s, from) == SubSeq(s, from + 1, Len(s))

\* s[from:to] with Go (0-based, end-exclusive) indices.
Slice(s, from, to) == SubSeq(s, from + 1, to)

\* strings.IndexAny(s, chars) as a Go index, -1 when absent.
IndexAny(s, chars) ==
    IF \E i \in 1..Len(s) : s[i] \in chars
    THEN (CHOOSE i \in 1..Len(s) : s[i] \in chars /\ \A j \in 1..(i - 1) : s[j] \notin chars) - 1
    ELSE -1

Index(s, c) == IndexAny(s, {c})

\* strings.ReplaceAll(s, old, new) for a one-byte old.
RECURSIVE ReplaceAll(_, _, _)
ReplaceAll(s, old, new) ==
    IF s = <<>> THEN <<>>
    ELSE (IF s[1] = old THEN new ELSE <<s[1]>>) \o ReplaceAll(Tail(s), old, new)

\* strings.Split(s, sep) for a one-byte sep: always at least one part.
RECURSIVE Split(_, _)
Split(s, sep) ==
    LET i == Index(s, sep)
    IN  IF i = -1 THEN <<s>>
        ELSE <<Slice(s, 0, i)>> \o Split(From(s, i + 1), sep)

\* strings.Join(parts, sep).
RECURSIVE Join(_, _)
Join(parts, sep) ==
    IF parts = <<>> THEN <<>>
    ELSE IF Len(parts) = 1 THEN parts[1]
    ELSE parts[1] \o sep \o Join(Tail(parts), sep)

WhiteSpace == {" ", "\n", "\t", "\r"}

\* strings.TrimSpace / bytes.TrimSpace.
RECURSIVE TrimLeft(_)
TrimLeft(s) == IF s # <<>> /\ s[1] \in WhiteSpace THEN TrimLeft(Tail(s)) ELSE s

RECURSIVE TrimRight(_)
TrimRight(s) ==
    IF s # <<>> /\ s[Len(s)] \in WhiteSpace THEN TrimRight(SubSeq(s, 1, Len(s) - 1)) ELSE s

TrimSpace(s) == TrimRight(TrimLeft(s))

\* strings.Fields: the maximal runs of non-space characters.
RECURSIVE Fields(_)
Fields(s) ==
    LET t == TrimLeft(s)
        i == IndexAny(t, WhiteSpace)
    IN  IF t = <<>> THEN <<>>
        ELSE IF i = -1 THEN <<t>>
        ELSE <<Slice(t, 0, i)>> \o Fields(From(t, i))

\* bufio.Scanner with ScanLines: the lines of the text, the final line kept
\* when no newline ends it, a trailing carriage return dropped.
DropCR(l) == IF l # <<>> /\ l[Len(l)] = "\r" THEN SubSeq(l, 1, Len(l) - 1) ELSE l

RECURSIVE ScanLines(_)
ScanLines(s) ==
    LET i == Index(s, "\n")
    IN  IF s = <<>> THEN <<>>
        ELSE IF i = -1 THEN <<DropCR(s)>>
        ELSE <<DropCR(Slice(s, 0, i))>> \o ScanLines(From(s, i + 1))

RECURSIVE DigitsVal(_)
DigitsVal(d) ==
    IF d = <<>> THEN 0 ELSE 10 * DigitsVal(SubSeq(d, 1, Len(d) - 1)) + DigitVal(d[Len(d)])

\* strconv.Atoi: an optional sign and one or more decimal digits.
Atoi(s) ==
    LET signed == s # <<>> /\ s[1] \in {"+", "-"}
        d == IF signed THEN Tail(s) ELSE s
    IN  IF d = <<>> \/ \E i \in 1..Len(d) : d[i] \notin Digits
        THEN [ok |-> FALSE, n |-> 0]
        ELSE [ok |-> TRUE, n |-> IF signed /\ s[1] = "-" THEN 0 - DigitsVal(d) ELSE DigitsVal(d)]

\* fmt.Sprintf("%d", n).
RECURSIVE NatStr(_)
NatStr(n) == IF n < 10 THEN <<Ascii[n + 17]>> ELSE NatStr(n \div 10) \o <<Ascii[(n % 10) + 17]>>

Itoa(n) == IF n < 0 THEN <<"-">> \o NatStr(0 - n) ELSE NatStr(n)

(***************************************************************************)
(* Go types and values as reflection sees them                             *)
(*   types  : [k |-> "int"], [k |-> "bool"], [k |-> "string"],             *)
(*            [k |-> "any"] (interface{}), [k |-> "ptr", e |-> T],         *)
(*            [k |-> "map", e |-> T] (string keys),                        *)
(*            [k |-> "struct", f |-> << [name, tag, t], ... >>],           *)
(*            [k |-> "slice", e |-> T]                                     *)
(*   values : [k |-> "int", i |-> n], [k |-> "bool", b |-> B],             *)
(*            [k |-> "str", s |-> S], [k |-> "nil"], [k |-> "ptr", p |-> v],*)
(*            [k |-> "map", m |-> [keys -> values]],                       *)
(*            [k |-> "struct", f |-> << v1, ..., vn >>],                   *)
(*            [k |-> "slice", e |-> << v1, ..., vn >>]                     *)
(***************************************************************************)

TInt == [k |-> "int"]
TBool == [k |-> "bool"]
TString == [k |-> "string"]
TAny == [k |-> "any"]
TPtr(e) == [k |-> "ptr", e |-> e]
TMap(e) == [k |-> "map", e |-> e]
TStruct(fields) == [k |-> "struct", f |-> fields]
TSlice(e) == [k |-> "slice", e |-> e]
Fld(name, tag, t) == [name |-> name, tag |-> tag, t |-> t]

IntV(n) == [k |-> "int", i |-> n]
BoolV(b) == [k |-> "bool", b |-> b]
StrV(s) == [k |-> "str", s |-> s]
NilV == [k |-> "nil"]
PtrV(v) == [k |-> "ptr", p |-> v]
MapV(m) == [k |-> "map", m |-> m]
StructV(vals) == [k |-> "struct", f |-> vals]
SliceV(vals) == [k |-> "slice", e |-> vals]

\* The name a struct field is exposed under: the first part of its zoon (or
\* json) tag when that is not empty, else the Go field name.
ExposedName(fld) ==
    LET parts == Split(fld.tag, ",")
    IN  IF parts[1] # <<>> THEN parts[1] ELSE fld.name

\* A field tagged "-" is left out.
Skipped(fld) == fld.tag = <<"-">>

\* The static type of what a pointer or container holds.
ElemType(t) == IF t.k \in {"ptr", "map", "slice"} THEN t.e ELSE TAny

\* reflect.Value.Kind() of a value held in a slot of static type t.
KindOf(t, v) ==
    IF t.k = "any" THEN "interface"
    ELSE IF v.k \in {"nil", "ptr"} THEN "ptr"
    ELSE v.k

canBeInt(kind) == kind = "int"

isIntKind(kind) == canBeInt(kind)

isBoolKind(kind) == kind = "bool"

(***************************************************************************)
(* Encoder                                                                 *)
(***************************************************************************)

RECURSIVE serializeValue(_, _)
RECURSIVE encodeInline(_, _)


formatInlinePair(key, t, v) ==
    IF KindOf(t, v) = "str" THEN key \o <<"=">> \o ReplaceAll(serializeValue(t, v), " ", <<"_">>)
    ELSE IF KindOf(t, v) = "bool" THEN key \o (IF v.b THEN <<":", "y">> ELSE <<":", "n">>)
    ELSE key \o <<":">> \o serializeValue(t, v)

RECURSIVE InlineStructPairs(_, _, _)
InlineStructPairs(t, v, i) ==
    IF i > Len(t.f) THEN <<>>
    ELSE IF Skipped(t.f[i]) THEN InlineStructPairs(t, v, i + 1)
    ELSE <<formatInlinePair(ExposedName(t.f[i]), t.f[i].t, v.f[i])>> \o InlineStructPairs(t, v, i + 1)

InlineMapPairs(t, v, keys) ==
    [i \in 1..Len(keys) |-> formatInlinePair(keys[i], ElemType(t), v.m[keys[i]])]

\* encodeInline: the text written for a struct or a map, a pointer being
\* followed first.
encodeInline(t, v) ==
    LET Parts(vt, val) ==
            IF val.k = "map" THEN InlineMapPairs(vt, val, SortStrings(DOMAIN val.m))
            ELSE IF val.k = "struct" THEN InlineStructPairs(vt, val, 1)
            ELSE <<>>
    IN  IF v.k = "ptr" THEN Join(Parts(ElemType(t), v.p), <<" ">>)
        ELSE Join(Parts(t, v), <<" ">>)

serializeValue(t, v) ==
    IF v.k = "nil" THEN <<"~">>
    ELSE IF v.k = "ptr" THEN serializeValue(ElemType(t), v.p)
    ELSE IF v.k = "str" THEN ReplaceAll(v.s, " ", <<"_">>)
    ELSE IF v.k = "int" THEN Itoa(v.i)
    ELSE IF v.k = "bool" THEN (IF v.b THEN <<"t", "r", "u", "e">> ELSE <<"f", "a", "l", "s", "e">>)
    ELSE <<"{">> \o encodeInline(t, v) \o <<"}">>

\* fmt.Sprintf("%v", rawVal) of a flattened value.
SprintV(v) ==
    IF v.k = "nil" THEN <<"<", "n", "i", "l", ">">>
    ELSE IF v.k = "str" THEN v.s
    ELSE serializeValue(TAny, v)

\* A Go map write: later entries replace earlier ones.
Put(result, more) == more @@ result

RECURSIVE flattenValue(_, _, _)
RECURSIVE FlattenFields(_, _, _, _)
RECURSIVE FlattenKeys(_, _, _, _)

SubKey(prefix, name) == IF prefix # <<>> THEN prefix \o <<".">> \o name ELSE name

FlattenFields(prefix, t, v, i) ==
    IF i > Len(t.f) THEN <<>>
    ELSE IF Skipped(t.f[i]) THEN FlattenFields(prefix, t, v, i + 1)
    ELSE Put(flattenValue(SubKey(prefix, ExposedName(t.f[i])), t.f[i].t, v.f[i]),
             FlattenFields(prefix, t, v, i + 1))


FlattenKeys(prefix, t, v, keys) ==
    IF keys = <<>> THEN <<>>
    ELSE Put(flattenValue(SubKey(prefix, keys[1]), ElemType(t), v.m[keys[1]]),
             FlattenKeys(prefix, t, v, Tail(keys)))

\* flattenValue: the entries written to the row map, path -> value (nil
\* pointers and nil interfaces as NilV), a pointer being followed first.
flattenValue(prefix, t, v) ==
    LET Entries(vt, val) ==
            IF val.k = "map" THEN FlattenKeys(prefix, vt, val, SortStrings(DOMAIN val.m))
            ELSE IF val.k = "struct" THEN FlattenFields(prefix, vt, val, 1)
            ELSE (prefix :> val)
    IN  IF v.k = "nil" THEN (prefix :> NilV)
        ELSE IF v.k = "ptr" THEN Entries(ElemType(t), v.p)
        ELSE Entries(t, v)

\* row[k] of a Go map: nil when the key is absent.
Get(row, k) == IF k \in DOMAIN row THEN row[k] ELSE NilV

Flattened(et, items) == [i \in 1..Len(items) |-> flattenValue(<<>>, et, items[i])]

\* allKeys left in descending order, as a sort with its comparison reversed
\* would leave it.
AllKeysDescending(flat) ==
    LET sorted == SortStrings(UNION {DOMAIN flat[i] : i \in 1..Len(flat)})
    IN  [i \in 1..Len(sorted) |-> sorted[Len(sorted) + 1 - i]]

\* allKeys: the union of the rows' paths, sorted.
AllKeys(flat) == SortStrings(UNION {DOMAIN flat[i] : i \in 1..Len(flat)})

\* A path is a constant when every row holds the first row's value and that
\* value is not nil.
IsConst(flat, k) ==
    /\ \A i \in 1..Len(flat) : Get(flat[i], k) = Get(flat[1], k)
    /\ Get(flat[1], k) # NilV

ConstKeySet(flat) ==
    IF Len(flat) > 1
    THEN {k \in UNION {DOMAIN flat[i] : i \in 1..Len(flat)} : IsConst(flat, k)}
    ELSE {}


ActiveKeys(flat) == SelectSeq(AllKeys(flat), LAMBDA k : k \notin ConstKeySet(flat))

\* The kind recorded for a column after its first n rows: the first non-nil
\* kind, widened to string when the rows disagree.
RECURSIVE KindUpTo(_, _, _)
KindUpTo(flat, k, n) ==
    IF n = 0 THEN "invalid"
    ELSE LET prev == KindUpTo(flat, k, n - 1)
             v == Get(flat[n], k)
         IN  IF v = NilV THEN prev
             ELSE IF prev = "invalid" THEN v.k
             ELSE IF prev # v.k THEN "str"
             ELSE prev

StatKind(flat, k) == KindUpTo(flat, k, Len(flat))

\* isSeq, the candidate flag set while the kinds are collected.
StatIsSeq(flat, k) ==
    k = <<"i", "d">> /\ \E n \in 1..Len(flat) : canBeInt(KindUpTo(flat, k, n))

StatValues(flat, k) == [i \in 1..Len(flat) |-> serializeValue(TAny, Get(flat[i], k))]

RECURSIVE SumLen(_)
SumLen(strs) == IF strs = <<>> THEN 0 ELSE Len(strs[1]) + SumLen(Tail(strs))

\* Program constants of the encoder.
EnumMaxUnique == 10
EnumMinIndexed == 3
TextAvgLen == 30
MaxAliases == 10
MaxAliasIdx == 25

\* The proper dotted prefixes of a key.
KeyPrefixes(key) ==
    LET parts == Split(key, ".")
    IN  {Join(SubSeq(parts, 1, i), <<".">>) : i \in 1..(Len(parts) - 1)}

PrefixCount(keys, prefix) ==
    Cardinality({i \in 1..Len(keys) : prefix \in KeyPrefixes(keys[i])})

\* Savings: (len - 2) * count - (len + 4)
AliasScore(keys, prefix) ==
    (Len(prefix) - 2) * PrefixCount(keys, prefix) - (Len(prefix) + 4)

\* The prefixes kept as savings: those with a positive score.
Savings(keys) ==
    {prefix \in UNION {KeyPrefixes(keys[i]) : i \in 1..Len(keys)} : AliasScore(keys, prefix) > 0}


\* The orders sort.Slice may leave the savings in: descending score, prefixes
\* of equal score in any order (the map is ranged over in any order and the
\* sort is not stable).
SavingsOrders(keys) ==
    LET Orders(S) ==
            {o \in [1..Cardinality(S) -> S] :
                /\ \A i, j \in 1..Cardinality(S) : i # j => o[i] # o[j]
                /\ \A i \in 1..(Cardinality(S) - 1) :
                       AliasScore(keys, o[i]) >= AliasScore(keys, o[i + 1])}
    IN  Orders(Savings(keys))

\* The inner loop of detectAliases: the first free candidate, trying the
\* letters a, b, c, ... after a collision; <<>> when the letters run out.
RECURSIVE FindAlias(_, _, _)
FindAlias(candidate, used, aliasIdx) ==
    IF candidate \notin used THEN [alias |-> candidate, aliasIdx |-> aliasIdx]
    ELSE IF Len(candidate) = 1
         THEN IF aliasIdx + 1 > MaxAliasIdx
              THEN [alias |-> <<>>, aliasIdx |-> aliasIdx + 1]
              ELSE FindAlias(RuneString(97 + aliasIdx), used, aliasIdx + 1)
         ELSE [alias |-> <<>>, aliasIdx |-> aliasIdx]

\* The first character of the last part of a prefix, lower-cased.
AliasCandidate(prefix) ==
    LET pParts == Split(prefix, ".")
    IN  <<ToLower(pParts[Len(pParts)][1])>>


\* The outer loop of detectAliases: the prefix is given the alias found for
\* it, if one was found, and the loop goes on until the table is full.
RECURSIVE AssignAliases(_, _, _, _)
AssignAliases(order, i, aliases, aliasIdx) ==
    LET Next(next, idx) ==
            IF Cardinality(DOMAIN next) >= MaxAliases THEN next
            ELSE AssignAliases(order, i + 1, next, idx)
        Assigned(found) ==
            Next(IF found.alias # <<>> THEN Put(aliases, order[i] :> found.alias) ELSE aliases,
                 found.aliasIdx)
    IN  IF i > Len(order) THEN aliases
        ELSE Assigned(FindAlias(AliasCandidate(order[i]), {aliases[p] : p \in DOMAIN aliases},
                                aliasIdx))

\* detectAliases for one order of the savings: prefix -> alias.
detectAliases(order) == AssignAliases(order, 1, <<>>, 0)

\* The prefixes of the alias table that applyAlias may match a name with.
AliasMatches(name, aliases) ==
    {prefix \in DOMAIN aliases : HasPrefix(name, prefix \o <<".">>) \/ name = prefix}

\* applyAlias: the name rewritten with the first matching prefix the range
\* over the alias map meets, here the prefix picks[name].
applyAlias(name, aliases, picks) ==
    IF AliasMatches(name, aliases) = {} THEN name
    ELSE <<"%">> \o aliases[picks[name]] \o From(name, Len(picks[name]))

\* The choices the range over the alias map leaves open: one matching prefix
\* for every key that has one.
AliasPicks(keys, aliases) ==
    LET named == {k \in keys : AliasMatches(k, aliases) # {}}
    IN  {f \in [named -> DOMAIN aliases] : \A k \in named : f[k] \in AliasMatches(k, aliases)}


\* The header token of a constant: the name with the alias applied and
\* spaces as underscores, then the value.
ConstToken(flat, k, aliases, picks) ==
    LET Token(val) ==
            (IF val.k = "str" THEN <<"=">> ELSE <<":">>)
            \o (IF val.k = "bool" THEN (IF val.b THEN <<"y">> ELSE <<"n">>)
                ELSE serializeValue(TAny, val))
    IN  <<"@">> \o ReplaceAll(applyAlias(k, aliases, picks), " ", <<"_">>) \o Token(Get(flat[1], k))

\* The column decision with an enum indexed as soon as the literals cost no
\* less than the indices: not what the header loop does.
ColumnSpecAtLeast(flat, k) ==
    LET Enum(plain, keys, length) ==
            IF Len(keys) >= EnumMinIndexed
            THEN IF (SumLen(keys) \div Len(keys)) * length >= Len(Join(keys, <<"|">>)) + length * 2
                 THEN [plain EXCEPT !.typeCode = <<"!">> \o Join(keys, <<"|">>),
                                    !.indexed = TRUE, !.enumKeys = keys]
                 ELSE [plain EXCEPT !.typeCode = <<"=">> \o Join(keys, <<"|">>), !.enumKeys = keys]
            ELSE IF Len(keys) > 0
            THEN [plain EXCEPT !.typeCode = <<"=">> \o Join(keys, <<"|">>), !.enumKeys = keys]
            ELSE plain
        Column(plain, isSeq, values, uniqueVals, length) ==
            IF isSeq
            THEN IF \A idx \in 1..length : values[idx] = Itoa(idx)
                 THEN [plain EXCEPT !.typeCode = <<"i", "+">>, !.skip = TRUE]
                 ELSE [plain EXCEPT !.typeCode = <<"i">>]
            ELSE IF isBoolKind(plain.kind) THEN [plain EXCEPT !.typeCode = <<"b">>]
            ELSE IF isIntKind(plain.kind) THEN [plain EXCEPT !.typeCode = <<"i">>]
            ELSE IF Cardinality(uniqueVals) <= EnumMaxUnique /\ Cardinality(uniqueVals) < length
            THEN Enum(plain, SortStrings(uniqueVals \ {<<"~">>}), length)
            ELSE IF length > 0 /\ SumLen(values) \div length > TextAvgLen
            THEN [plain EXCEPT !.typeCode = <<"t">>, !.isText = TRUE]
            ELSE plain
    IN  Column([typeCode |-> <<"s">>, skip |-> FALSE, indexed |-> FALSE, enumKeys |-> <<>>,
                isText |-> FALSE, kind |-> StatKind(flat, k)],
               StatIsSeq(flat, k), StatValues(flat, k),
               {StatValues(flat, k)[i] : i \in 1..Len(flat)}, Len(flat))

\* The column decision of the header loop: the type code and the flags the
\* row loop reads. A column starts as a plain string column; one of few
\* unique values becomes an enum (keys being the sorted unique values other
\* than the null marker), indexed when the literals cost more than the
\* indices.
ColumnSpec(flat, k) ==
    LET Enum(plain, keys, length) ==
            IF Len(keys) >= EnumMinIndexed
            THEN IF (SumLen(keys) \div Len(keys)) * length > Len(Join(keys, <<"|">>)) + length * 2
                 THEN [plain EXCEPT !.typeCode = <<"!">> \o Join(keys, <<"|">>),
                                    !.indexed = TRUE, !.enumKeys = keys]
                 ELSE [plain EXCEPT !.typeCode = <<"=">> \o Join(keys, <<"|">>), !.enumKeys = keys]
            ELSE IF Len(keys) > 0
            THEN [plain EXCEPT !.typeCode = <<"=">> \o Join(keys, <<"|">>), !.enumKeys = keys]
            ELSE plain
        Column(plain, isSeq, values, uniqueVals, length) ==
            IF isSeq
            THEN IF \A idx \in 1..length : values[idx] = Itoa(idx)
                 THEN [plain EXCEPT !.typeCode = <<"i", "+">>, !.skip = TRUE]
                 ELSE [plain EXCEPT !.typeCode = <<"i">>]
            ELSE IF isBoolKind(plain.kind) THEN [plain EXCEPT !.typeCode = <<"b">>]
            ELSE IF isIntKind(plain.kind) THEN [plain EXCEPT !.typeCode = <<"i">>]
            ELSE IF Cardinality(uniqueVals) <= EnumMaxUnique /\ Cardinality(uniqueVals) < length
            THEN Enum(plain, SortStrings(uniqueVals \ {<<"~">>}), length)
            ELSE IF length > 0 /\ SumLen(values) \div length > TextAvgLen
            THEN [plain EXCEPT !.typeCode = <<"t">>, !.isText = TRUE]
            ELSE plain
    IN  Column([typeCode |-> <<"s">>, skip |-> FALSE, indexed |-> FALSE, enumKeys |-> <<>>,
                isText |-> FALSE, kind |-> StatKind(flat, k)],
               StatIsSeq(flat, k), StatValues(flat, k),
               {StatValues(flat, k)[i] : i \in 1..Len(flat)}, Len(flat))

\* The header token of an active column.
ColumnToken(flat, k, aliases, picks) ==
    LET Token(typeCode, aliased) ==
            IF HasPrefix(typeCode, <<"=">>) \/ HasPrefix(typeCode, <<"!">>)
            THEN aliased \o typeCode
            ELSE aliased \o <<":">> \o typeCode
    IN  Token(ColumnSpec(flat, k).typeCode, ReplaceAll(applyAlias(k, aliases, picks), " ", <<"_">>))

\* The index of the first enum key equal to sVal, as the row loop finds it.
EnumIndex(enumKeys, sVal) ==
    IF \E i \in 1..Len(enumKeys) : enumKeys[i] = sVal
    THEN Itoa((CHOOSE i \in 1..Len(enumKeys) :
                   enumKeys[i] = sVal /\ \A j \in 1..(i - 1) : enumKeys[j] # sVal) - 1)
    ELSE sVal

\* A row token that ignores the column's type code: the serialized value as
\* it is, booleans as true/false.
RowTokenSerialized(spec, rawVal) == serializeValue(TAny, rawVal)


\* The token a row writes for an active column that is not skipped.
RowToken(spec, rawVal) ==
    LET Token(sVal) ==
            IF isBoolKind(spec.kind)
            THEN IF sVal = <<"t", "r", "u", "e">> THEN <<"1">>
                 ELSE IF sVal = <<"f", "a", "l", "s", "e">> THEN <<"0">>
                 ELSE sVal
            ELSE IF spec.indexed /\ Len(spec.enumKeys) > 0 THEN EnumIndex(spec.enumKeys, sVal)
            ELSE IF spec.isText
            THEN <<"\"">> \o ReplaceAll(SprintV(rawVal), "\"", <<"\\", "\"">>) \o <<"\"">>
            ELSE sVal
    IN  Token(serializeValue(TAny, rawVal))

\* The data line of one row: the tokens of the active columns that are not
\* skipped.
RowLine(flat, activeKeys, row) ==
    LET Tokens(cols) ==
            [i \in 1..Len(cols) |-> RowToken(ColumnSpec(flat, cols[i]), Get(row, cols[i]))]
    IN  Join(Tokens(SelectSeq(activeKeys, LAMBDA k : ~ColumnSpec(flat, k).skip)), <<" ">>)

\* The alias definition line: the %alias=prefix parts, sorted.
AliasLine(aliases) ==
    Join(SortStrings({<<"%">> \o aliases[p] \o <<"=">> \o p : p \in DOMAIN aliases}), <<" ">>)


\* Whether no active column writes a token in the rows.
AllSkipped(flat, activeKeys) == \A i \in 1..Len(activeKeys) : ColumnSpec(flat, activeKeys[i]).skip

\* The header line: "#", the constants sorted by path, the columns, and +N
\* when no active column writes a token.
HeaderLine(flat, aliases, picks) ==
    LET Parts(constKeys, activeKeys) ==
            << <<"#">> >>
            \o [i \in 1..Len(constKeys) |-> ConstToken(flat, constKeys[i], aliases, picks)]
            \o [i \in 1..Len(activeKeys) |-> ColumnToken(flat, activeKeys[i], aliases, picks)]
            \o (IF AllSkipped(flat, activeKeys) /\ Len(flat) > 0
                THEN << <<"+">> \o Itoa(Len(flat)) >> ELSE <<>>)
    IN  Join(Parts(SortStrings(ConstKeySet(flat)), ActiveKeys(flat)), <<" ">>)

RECURSIVE Concat(_)
Concat(strs) == IF strs = <<>> THEN <<>> ELSE strs[1] \o Concat(Tail(strs))


\* encodeTabular with the savings in the given order and the given alias
\* picks: the alias line, when there are aliases, the header line and,
\* unless every column is skipped, the data lines.
encodeTabularWith(flat, aliases, picks) ==
    LET RowLines(activeKeys) ==
            IF AllSkipped(flat, activeKeys) THEN <<>>
            ELSE Concat([i \in 1..Len(flat) |-> RowLine(flat, activeKeys, flat[i]) \o <<"\n">>])
    IN  Join((IF DOMAIN aliases # {} THEN <<AliasLine(aliases)>> ELSE <<>>)
             \o <<HeaderLine(flat, aliases, picks)>>, <<"\n">>)
        \o <<"\n">> \o RowLines(ActiveKeys(flat))

\* The alias tables detectAliases may return for the active keys.
AliasTables(flat) == {detectAliases(o) : o \in SavingsOrders(ActiveKeys(flat))}


\* encodeTabular: every text the call may write (one text unless the order
\* of a map range decides).
encodeTabular(et, items) ==
    LET Texts(flat) ==
            UNION {{encodeTabularWith(flat, aliases, picks) :
                        picks \in AliasPicks(UNION {DOMAIN flat[i] : i \in 1..Len(flat)}, aliases)} :
                   aliases \in AliasTables(flat)}
    IN  IF Len(items) = 0 THEN {<<>>} ELSE Texts(Flattened(et, items))

\* encode: the texts Marshal may return for a value of static type t, or an
\* error for a value that is neither array-like nor a struct or map.
encode(t, v) ==
    LET Encoded(vt, val) ==
            IF val.k = "slice" THEN [err |-> "", out |-> encodeTabular(ElemType(vt), val.e)]
            ELSE IF val.k \in {"struct", "map"} THEN [err |-> "", out |-> {encodeInline(vt, val)}]
            ELSE [err |-> "zoon: invalid format: top level must be object or array", out |-> {}]
    IN  IF v.k = "ptr" THEN Encoded(ElemType(t), v.p) ELSE Encoded(t, v)

(***************************************************************************)
(* Decoder                                                                 *)
(* A call ends "ok" (nil returned), "err" (an error returned) or "panic"   *)
(* (a run-time panic: an index or slice out of range, a reflect panic).    *)
(***************************************************************************)

Res(st, v) == [st |-> st, v |-> v]

\* reflect.Zero / reflect.New(t).Elem(): the zero value of a type.
RECURSIVE Zero(_)
Zero(t) ==
    IF t.k = "int" THEN IntV(0)
    ELSE IF t.k = "bool" THEN BoolV(FALSE)
    ELSE IF t.k = "string" THEN StrV(<<>>)
    ELSE IF t.k = "struct" THEN StructV([i \in 1..Len(t.f) |-> Zero(t.f[i].t)])
    ELSE NilV

\* parsePrimitive: NilV stands for the nil it returns for "~".
parsePrimitive(s, typ) ==
    IF s = <<"~">> THEN NilV
    ELSE IF typ = <<"i">> \/ typ = <<"i", "+">> THEN IntV(Atoi(s).n)
    ELSE IF typ = <<"b">> THEN BoolV(s = <<"1">> \/ s = <<"y">> \/ s = <<"t", "r", "u", "e">>)
    ELSE IF s = <<"y">> \/ s = <<"n">> THEN BoolV(s = <<"y">>)
    ELSE IF Atoi(s).ok THEN IntV(Atoi(s).n)
    ELSE IF s = <<"t", "r", "u", "e">> \/ s = <<"f", "a", "l", "s", "e">> THEN BoolV(s = <<"t", "r", "u", "e">>)
    ELSE StrV(ReplaceAll(s, "_", <<" ">>))

\* findField: the index of the first field whose tag name equals the name or
\* whose Go name equals it ignoring case; 0 when there is none.
FieldMatches(fld, name) ==
    \/ fld.tag # <<>> /\ Split(fld.tag, ",")[1] = name
    \/ EqualFold(fld.name, name)

findField(t, name) ==
    IF \E i \in 1..Len(t.f) : FieldMatches(t.f[i], name)
    THEN CHOOSE i \in 1..Len(t.f) :
             FieldMatches(t.f[i], name) /\ \A j \in 1..(i - 1) : ~FieldMatches(t.f[j], name)
    ELSE 0

\* rVal.Type().ConvertibleTo(field.Type()) for the values parsePrimitive
\* returns: an int converts to an int, to a string (the rune conversion) and
\* to an interface; a bool and a string convert to their own kind and to an
\* interface.
ConvertibleTo(val, ft) ==
    \/ ft.k = "any"
    \/ val.k = "int" /\ ft.k \in {"int", "string"}
    \/ val.k = "bool" /\ ft.k = "bool"
    \/ val.k = "str" /\ ft.k = "string"

\* rVal.Convert(field.Type()).
Convert(val, ft) ==
    IF val.k = "int" /\ ft.k = "string" THEN StrV(RuneString(val.i)) ELSE val

\* Whether SetMapIndex accepts the value for a map of this element type.
AssignableTo(val, et) ==
    \/ et.k = "any"
    \/ val.k = "int" /\ et.k = "int"
    \/ val.k = "bool" /\ et.k = "bool"
    \/ val.k = "str" /\ et.k = "string"

\* The type of the value an interface holds.
DynType(t, v) ==
    IF t.k # "any" THEN t
    ELSE IF v.k = "map" THEN TMap(TAny)
    ELSE IF v.k = "int" THEN TInt
    ELSE IF v.k = "bool" THEN TBool
    ELSE IF v.k = "str" THEN TString
    ELSE TAny

\* inlineParser.parse: the pairs of an inline text, or an error.
RECURSIVE KeyEnd(_, _)
KeyEnd(in, pos) ==
    IF pos < Len(in) /\ in[pos + 1] \notin {":", "=", " "} THEN KeyEnd(in, pos + 1) ELSE pos

RECURSIVE BraceEnd(_, _, _)
BraceEnd(in, pos, depth) ==
    IF pos < Len(in) /\ depth > 0
    THEN BraceEnd(in, pos + 1,
                  IF in[pos + 1] = "{" THEN depth + 1
                  ELSE IF in[pos + 1] = "}" THEN depth - 1
                  ELSE depth)
    ELSE pos

RECURSIVE WordEnd(_, _)
WordEnd(in, pos) == IF pos < Len(in) /\ in[pos + 1] # " " THEN WordEnd(in, pos + 1) ELSE pos

RECURSIVE skipSpace(_, _)
skipSpace(in, pos) ==
    IF pos < Len(in) /\ in[pos + 1] \in {" ", "\n"} THEN skipSpace(in, pos + 1) ELSE pos

RECURSIVE ParseFrom(_, _, _)
ParseFrom(in, pos0, pairs) ==
    IF pos0 >= Len(in) THEN [err |-> FALSE, pairs |-> pairs]
    ELSE LET keyStart == skipSpace(in, pos0)
             keyEnd == KeyEnd(in, keyStart)
             valStart == keyEnd + 1
             valEnd == IF valStart < Len(in) /\ in[valStart + 1] = "{"
                       THEN BraceEnd(in, valStart + 1, 1)
                       ELSE WordEnd(in, valStart)
         IN  IF keyStart >= Len(in) THEN [err |-> FALSE, pairs |-> pairs]
             ELSE IF keyEnd >= Len(in) THEN [err |-> TRUE, pairs |-> <<>>]
             ELSE ParseFrom(in, valEnd,
                            Append(pairs, [key |-> Slice(in, keyStart, keyEnd),
                                           sep |-> in[keyEnd + 1],
                                           value |-> Slice(in, valStart, valEnd)]))

parse(in) == ParseFrom(in, 0, <<>>)

\* The value handed on for a pair: a value after "=" has its underscores
\* turned into spaces.
PairValue(p) == IF p.sep = "=" THEN ReplaceAll(p.value, "_", <<" ">>) ELSE p.value


RECURSIVE setDeepField(_, _, _, _, _)
RECURSIVE SetDeepAt(_, _, _, _, _)
RECURSIVE SetDeepMap(_, _, _, _, _, _)
RECURSIVE setField(_, _, _, _, _)
RECURSIVE SetFieldAt(_, _, _, _, _)
RECURSIVE ApplyPairs(_, _, _, _, _)

\* deref: the value a pointer points to, a nil pointer being allocated.
Deref(t, v) == IF v.k = "nil" THEN Zero(t.e) ELSE v.p

\* The result seen through the pointer that was dereferenced.
PtrRes(r) == Res(r.st, PtrV(r.v))

\* The loop over the parsed pairs. With strict, the first error ends it (as
\* decodeInline does); without, errors are dropped (as setField does for the
\* pairs of a nested {...}). A panic always ends it.
ApplyPairs(t, v, pairs, i, strict) ==
    LET Then(r) ==
            IF r.st = "panic" \/ (r.st = "err" /\ strict) THEN r
            ELSE ApplyPairs(t, r.v, pairs, i + 1, strict)
    IN  IF i > Len(pairs) THEN Res("ok", v)
        ELSE Then(setDeepField(t, v, Split(pairs[i].key, "."), <<"a", "u", "t", "o">>, PairValue(pairs[i])))

\* The value a nested {...} text decodes to in a fresh element of type t.
NestedValue(t, valStr) ==
    ApplyPairs(t, Zero(t), parse(Slice(valStr, 1, Len(valStr) - 1)).pairs, 1, FALSE)

\* setField on a map of entries m: the nested element r, or the parsed primitive val,
\* is stored under the name.
SetMapIndex(t, m, name, typ, valStr) ==
    LET PutNested(r) ==
            IF r.st = "panic" THEN Res("panic", MapV(m))
            ELSE Res("ok", MapV(Put(m, name :> r.v)))
        PutPrimitive(val) ==
            IF val = NilV THEN Res("ok", MapV(Put(m, name :> Zero(t.e))))
            ELSE IF AssignableTo(val, t.e) THEN Res("ok", MapV(Put(m, name :> val)))
            ELSE Res("panic", MapV(m))
    IN  IF HasPrefix(valStr, <<"{">>) /\ Len(valStr) < 2 THEN Res("panic", MapV(m))
        ELSE IF HasPrefix(valStr, <<"{">>) /\ t.e.k \in {"struct", "map"}
        THEN PutNested(NestedValue(t.e, valStr))
        ELSE PutPrimitive(parsePrimitive(valStr, typ))

\* setField on a struct with a name that selects no field (i = 0) taken for
\* an error: not what setField does.
SetStructFieldStrict(t, v, i, typ, valStr) ==
    LET SetNested(r) ==
            IF r.st = "panic" THEN Res("panic", v)
            ELSE Res("ok", [v EXCEPT !.f[i] = r.v])
        SetConverted(ft, converted) ==
            IF converted = NilV THEN Res("ok", [v EXCEPT !.f[i] = Zero(ft)])
            ELSE IF ConvertibleTo(converted, ft)
            THEN Res("ok", [v EXCEPT !.f[i] = Convert(converted, ft)])
            ELSE Res("ok", v)
    IN  IF i = 0 THEN Res("err", v)
        ELSE IF HasPrefix(valStr, <<"{">>)
        THEN IF Len(valStr) < 2 THEN Res("panic", v)
             ELSE SetNested(NestedValue(t.f[i].t, valStr))
        ELSE SetConverted(t.f[i].t, parsePrimitive(valStr, typ))

\* setField on a struct: the nested value r, or the parsed primitive
\* converted to the field's type, is stored in field i (0: no such field).
SetStructField(t, v, i, typ, valStr) ==
    LET SetNested(r) ==
            IF r.st = "panic" THEN Res("panic", v)
            ELSE Res("ok", [v EXCEPT !.f[i] = r.v])
        SetConverted(ft, converted) ==
            IF converted = NilV THEN Res("ok", [v EXCEPT !.f[i] = Zero(ft)])
            ELSE IF ConvertibleTo(converted, ft)
            THEN Res("ok", [v EXCEPT !.f[i] = Convert(converted, ft)])
            ELSE Res("ok", v)
    IN  IF i = 0 THEN Res("ok", v)
        ELSE IF HasPrefix(valStr, <<"{">>)
        THEN IF Len(valStr) < 2 THEN Res("panic", v)
             ELSE SetNested(NestedValue(t.f[i].t, valStr))
        ELSE SetConverted(t.f[i].t, parsePrimitive(valStr, typ))

\* setField on the value deref returned.
SetFieldAt(t, v, name, typ, valStr) ==
    IF t.k = "map"
    THEN SetMapIndex(t, IF v.k = "nil" THEN <<>> ELSE v.m, name, typ, valStr)
    ELSE IF t.k = "struct" THEN SetStructField(t, v, findField(t, name), typ, valStr)
    ELSE Res("ok", v)

\* setField: dest is dereferenced (a nil pointer is allocated) and the
\* named field or key is set.
setField(t, v, name, typ, valStr) ==
    IF t.k = "ptr" THEN PtrRes(SetFieldAt(t.e, Deref(t, v), name, typ, valStr))
    ELSE SetFieldAt(t, v, name, typ, valStr)

\* The step of setDeepField through a map of entries m, for a segment that is not the
\* last. The nested value found under the key is descended into; a missing
\* one is created, and put into the map only where the code does so. After
\* the recursive call r the map is left as it was (Kept), has the nested
\* value stored back under the key (Stored), or held a struct element e,
\* which is not addressable: a panic as soon as a field is set (Struct).
SetDeepMap(t, m, key, rest, typ, valStr) ==
    LET Kept(r) == Res(r.st, MapV(m))
        Stored(r) == Res(r.st, MapV(Put(m, key :> r.v)))
        Struct(e, r) == IF r.st = "ok" /\ r.v # e THEN Res("panic", MapV(m)) ELSE Res(r.st, MapV(m))
        Entry(e) ==
            IF e.k = "nil" /\ t.e.k = "ptr" THEN Res("panic", MapV(m))
            ELSE IF e.k = "nil" /\ t.e.k = "map" /\ t.e.e.k # "any" THEN Res("panic", MapV(m))
            ELSE IF e.k = "nil"
            THEN Stored(setDeepField(TMap(TAny), MapV(<<>>), rest, typ, valStr))
            ELSE IF e.k = "struct"
            THEN Struct(e, setDeepField(DynType(t.e, e), e, rest, typ, valStr))
            ELSE Stored(setDeepField(DynType(t.e, e), e, rest, typ, valStr))
    IN  IF key \in DOMAIN m THEN Entry(m[key])
        ELSE IF t.e.k = "any"
        THEN Kept(setDeepField(TMap(TAny), MapV(<<>>), rest, typ, valStr))
        ELSE IF t.e.k = "ptr"
        THEN Kept(setDeepField(t.e, PtrV(Zero(t.e.e)), rest, typ, valStr))
        ELSE IF t.e.k = "map"
        THEN IF t.e.e.k # "any" THEN Res("panic", MapV(m))
             ELSE Stored(setDeepField(t.e, MapV(<<>>), rest, typ, valStr))
        ELSE Kept(setDeepField(t.e, Zero(t.e), rest, typ, valStr))

\* The step of setDeepField through field i of a struct (0: no such field).
SetDeepStruct(t, v, i, rest, typ, valStr) ==
    LET Stored(r) == Res(r.st, [v EXCEPT !.f[i] = r.v])
    IN  IF i = 0 THEN Res("ok", v)
        ELSE Stored(setDeepField(t.f[i].t, v.f[i], rest, typ, valStr))

\* setDeepField on the value deref returned, parts being the segments left.
SetDeepAt(t, v, parts, typ, valStr) ==
    IF Len(parts) = 1 THEN setField(t, v, parts[1], typ, valStr)
    ELSE IF t.k = "map"
    THEN SetDeepMap(t, IF v.k = "nil" THEN <<>> ELSE v.m, parts[1], Tail(parts), typ, valStr)
    ELSE IF t.k = "struct"
    THEN SetDeepStruct(t, v, findField(t, parts[1]), Tail(parts), typ, valStr)
    ELSE Res("err", v)

\* setDeepField(dest, path, typ, valStr), parts being strings.Split(path, "."):
\* the destination after the call, and how the call ends.
setDeepField(t, v, parts, typ, valStr) ==
    IF t.k = "ptr" THEN PtrRes(SetDeepAt(t.e, Deref(t, v), parts, typ, valStr))
    ELSE SetDeepAt(t, v, parts, typ, valStr)

\* tokenizeRow: the tokens of a data line; panic when a slice bound falls
\* outside the line.
RECURSIVE QuoteEnd(_, _)
QuoteEnd(line, end) ==
    IF end < Len(line)
    THEN IF line[end + 1] = "\\" /\ end + 1 < Len(line) THEN QuoteEnd(line, end + 2)
         ELSE IF line[end + 1] = "\"" THEN end + 1
         ELSE QuoteEnd(line, end + 1)
    ELSE end

RECURSIVE BracketEnd(_, _)
BracketEnd(line, end) ==
    IF end < Len(line) /\ line[end + 1] # "]" THEN BracketEnd(line, end + 1) ELSE end

RECURSIVE SkipBlanks(_, _)
SkipBlanks(line, i) == IF i < Len(line) /\ line[i + 1] = " " THEN SkipBlanks(line, i + 1) ELSE i

RECURSIVE TokenizeFrom(_, _, _)
TokenizeFrom(line, i0, tokens) ==
    LET i == SkipBlanks(line, i0)
    IN  IF i0 >= Len(line) \/ i >= Len(line) THEN [panic |-> FALSE, tokens |-> tokens]
        ELSE IF line[i + 1] = "\""
        THEN LET end == QuoteEnd(line, i + 1)
             IN  IF i + 1 > end - 1 THEN [panic |-> TRUE, tokens |-> tokens]
                 ELSE TokenizeFrom(line, end, Append(tokens, Slice(line, i + 1, end - 1)))
        ELSE IF line[i + 1] = "["
        THEN LET end == BracketEnd(line, i + 1)
             IN  IF end + 1 > Len(line) THEN [panic |-> TRUE, tokens |-> tokens]
                 ELSE TokenizeFrom(line, end + 1, Append(tokens, Slice(line, i, end + 1)))
        ELSE LET end == WordEnd(line, i)
             IN  TokenizeFrom(line, end, Append(tokens, Slice(line, i, end)))

tokenizeRow(line) == TokenizeFrom(line, 0, <<>>)

\* The alias definitions of one % line added to the alias table; panic when
\* a token starts with "=".
RECURSIVE AliasDefs(_, _)
AliasDefs(parts, aliases) ==
    IF parts = <<>> THEN [panic |-> FALSE, aliases |-> aliases]
    ELSE LET p == parts[1]
             idx == Index(p, "=")
             alias0 == Slice(p, 1, idx)
             alias == IF HasPrefix(alias0, <<"%">>) THEN Tail(alias0) ELSE alias0
         IN  IF idx = -1 THEN AliasDefs(Tail(parts), aliases)
             ELSE IF idx < 1 THEN [panic |-> TRUE, aliases |-> aliases]
             ELSE AliasDefs(Tail(parts), Put(aliases, alias :> From(p, idx + 1)))

\* The header phase of decodeTabular: the lines up to the header.
\*   st: "header" (found, at line index at), "err", "panic"
RECURSIVE ScanHeader(_, _, _)
ScanHeader(lines, i, aliases) ==
    IF i > Len(lines) THEN [st |-> "err", at |-> i, aliases |-> aliases, headerLine |-> <<>>]
    ELSE LET line == TrimSpace(lines[i])
             defs == AliasDefs(Fields(line), aliases)
         IN  IF line = <<>> THEN ScanHeader(lines, i + 1, aliases)
             ELSE IF HasPrefix(line, <<"%">>)
             THEN IF defs.panic
                  THEN [st |-> "panic", at |-> i, aliases |-> aliases, headerLine |-> <<>>]
                  ELSE ScanHeader(lines, i + 1, defs.aliases)
             ELSE IF HasPrefix(line, <<"#">>)
             THEN [st |-> "header", at |-> i, aliases |-> aliases, headerLine |-> line]
             ELSE [st |-> "err", at |-> i, aliases |-> aliases, headerLine |-> <<>>]

\* The name of a header token with its alias expanded.
Unalias(name, aliases) ==
    LET dotIdx == Index(name, ".")
        aName == IF dotIdx # -1 THEN Slice(name, 1, dotIdx) ELSE Tail(name)
    IN  IF ~HasPrefix(name, <<"%">>) THEN name
        ELSE IF aName \notin DOMAIN aliases THEN name
        ELSE IF dotIdx # -1 THEN aliases[aName] \o <<".">> \o From(name, dotIdx + 1)
        ELSE aliases[aName]


\* The descriptor of one header token that is neither +N nor without a
\* separator: a constant (after "@") or a column.
HeaderField(part0, aliases) ==
    LET Field(isConst, name, sep, suffix) ==
            IF isConst
            THEN [name |-> name, isConst |-> TRUE, indexed |-> FALSE, options |-> <<>>,
                  typ |-> IF sep = "=" THEN <<"s">> ELSE <<"i", "n", "f", "e", "r", "r", "e", "d">>,
                  val |-> IF sep = "=" THEN ReplaceAll(suffix, "_", <<" ">>) ELSE suffix]
            ELSE [name |-> name, isConst |-> FALSE, indexed |-> sep = "!", val |-> <<>>,
                  options |-> IF sep \in {"=", "!"} THEN Split(suffix, "|") ELSE <<>>,
                  typ |-> IF sep \in {"=", "!"} THEN <<"s">> ELSE suffix]
        Part(isConst, part, sepIdx) ==
            Field(isConst, Unalias(Slice(part, 0, sepIdx), aliases), part[sepIdx + 1],
                  From(part, sepIdx + 1))
    IN  IF HasPrefix(part0, <<"@">>)
        THEN Part(TRUE, Tail(part0), IndexAny(Tail(part0), {":", "=", "!"}))
        ELSE Part(FALSE, part0, IndexAny(part0, {":", "=", "!"}))

IsRowCount(part) == HasPrefix(part, <<"+">>)

HasSeparator(part0) ==
    IndexAny(IF HasPrefix(part0, <<"@">>) THEN Tail(part0) ELSE part0, {":", "=", "!"}) # -1

\* The parsed header: the column and constant descriptors in the order of
\* their tokens, and the explicit row count (-1 when none is given).
ParseHeader(headerLine, aliases) ==
    LET Header(fields, counts) ==
            [headers |-> SelectSeq(fields, LAMBDA hf : ~hf.isConst),
             constants |-> SelectSeq(fields, LAMBDA hf : hf.isConst),
             explicitRows |-> IF counts = <<>> THEN -1 ELSE Atoi(Tail(counts[Len(counts)])).n]
        Described(fieldParts) ==
            [i \in 1..Len(fieldParts) |-> HeaderField(fieldParts[i], aliases)]
        Parsed(headerParts) ==
            Header(Described(SelectSeq(headerParts,
                                       LAMBDA part : ~IsRowCount(part) /\ HasSeparator(part))),
                   SelectSeq(headerParts, LAMBDA part : IsRowCount(part) /\ Atoi(Tail(part)).ok))
    IN  Parsed(Fields(From(headerLine, 2)))

\* The constants of the header applied to a new element.
RECURSIVE ApplyConstants(_, _, _, _)
ApplyConstants(et, elem, constants, i) ==
    LET Then(r) == IF r.st # "ok" THEN r ELSE ApplyConstants(et, r.v, constants, i + 1)
    IN  IF i > Len(constants) THEN Res("ok", elem)
        ELSE Then(setDeepField(et, elem, Split(constants[i].name, "."), <<"a", "u", "t", "o">>, constants[i].val))

\* The column loop of processRow: autoIncID counts the i+ columns met so
\* far, valIdx the row tokens consumed. The token of a column is the counter
\* for an i+ column, else the next row token, else the null marker; in an
\* indexed column an index stands for its option.
RECURSIVE ApplyColumns(_, _, _, _, _, _, _)
ApplyColumns(et, elem, headers, i, vals, valIdx, autoIncID) ==
    LET Option(h, valStr, n) ==
            IF h.indexed /\ Len(h.options) > 0 /\ n.ok /\ n.n >= 0 /\ n.n < Len(h.options)
            THEN h.options[n.n + 1]
            ELSE valStr
        Then(r, idx1, id1) ==
            IF r.st # "ok" THEN [st |-> r.st, v |-> r.v, autoIncID |-> id1]
            ELSE ApplyColumns(et, r.v, headers, i + 1, vals, idx1, id1)
        Column(h, valStr, idx1, id1) ==
            IF valStr = <<"~">> THEN ApplyColumns(et, elem, headers, i + 1, vals, idx1, id1)
            ELSE Then(setDeepField(et, elem, Split(h.name, "."), h.typ,
                                   Option(h, valStr, Atoi(valStr))),
                      idx1, id1)
        Auto(h) == h.typ = <<"i", "+">>
    IN  IF i > Len(headers) THEN [st |-> "ok", v |-> elem, autoIncID |-> autoIncID]
        ELSE Column(headers[i],
                    IF Auto(headers[i]) THEN Itoa(autoIncID + 1)
                    ELSE IF valIdx < Len(vals) THEN vals[valIdx + 1]
                    ELSE <<"~">>,
                    IF ~Auto(headers[i]) /\ valIdx < Len(vals) THEN valIdx + 1 ELSE valIdx,
                    IF Auto(headers[i]) THEN autoIncID + 1 ELSE autoIncID)

\* processRow: a new element of the slice's element type (of what it points
\* to, for a pointer element) with the constants and then the columns
\* assigned, appended to the slice unless an assignment fails.
processRow(st, hdr, vals) ==
    LET Appended(r) ==
            IF r.st # "ok" THEN [st EXCEPT !.st = r.st, !.autoIncID = r.autoIncID]
            ELSE [st EXCEPT !.rows = Append(st.rows, IF st.et.k = "ptr" THEN PtrV(r.v) ELSE r.v),
                            !.autoIncID = r.autoIncID]
        Columns(elemType, c) ==
            IF c.st # "ok" THEN [st EXCEPT !.st = c.st]
            ELSE Appended(ApplyColumns(elemType, c.v, hdr.headers, 1, vals, 0, st.autoIncID))
        Row(elemType) ==
            Columns(elemType, ApplyConstants(elemType, Zero(elemType), hdr.constants, 1))
    IN  Row(IF st.et.k = "ptr" THEN st.et.e ELSE st.et)

\* The rows synthesized for an explicit row count.
RECURSIVE ExplicitRows(_, _, _)
ExplicitRows(st, hdr, n) ==
    IF n <= 0 \/ st.st # "ok" THEN st
    ELSE ExplicitRows(processRow(st, hdr, <<>>), hdr, n - 1)

\* The rows of the data lines from line index i on: a blank line is passed
\* over, the tokens of any other line make a row.
RECURSIVE DataRows(_, _, _, _)

TokenRow(st, hdr, lines, i, toks) ==
    IF toks.panic THEN [st EXCEPT !.st = "panic"]
    ELSE DataRows(processRow(st, hdr, toks.tokens), hdr, lines, i + 1)

DataRows(st, hdr, lines, i) ==
    IF i > Len(lines) \/ st.st # "ok" THEN st
    ELSE IF TrimSpace(lines[i]) = <<>> THEN DataRows(st, hdr, lines, i + 1)
    ELSE TokenRow(st, hdr, lines, i, tokenizeRow(TrimSpace(lines[i])))

\* The rows of an explicit row count, if any, then those of the data lines
\* after the header, for a slice v of element type et: v is cut to length 0
\* (a nil slice stays nil) and every row is appended to it.
TabularRows(et, v, hdr, lines, at) ==
    LET NoRows == [st |-> "ok", et |-> et, rows |-> <<>>, autoIncID |-> 0]
        Result(st) == Res(st.st, IF st.rows = <<>> /\ v.k = "nil" THEN v ELSE SliceV(st.rows))
    IN  Result(DataRows(IF hdr.explicitRows > 0
                        THEN ExplicitRows(NoRows, hdr, hdr.explicitRows)
                        ELSE NoRows,
                        hdr, lines, at))

\* decodeTabular once the lines up to the header have been scanned.
TabularFrom(t, v, lines, scan) ==
    IF scan.st # "header" THEN Res(scan.st, v)
    ELSE IF Len(scan.headerLine) < 2 THEN Res("panic", v)
    ELSE IF t.k # "slice" THEN Res("err", v)
    ELSE TabularRows(t.e, v, ParseHeader(scan.headerLine, scan.aliases), lines, scan.at + 1)

\* decodeTabular(data, rv) for rv pointing to a value v of type t: how the
\* call ends and what rv points to afterwards.
decodeTabular(data, t, v) ==
    TabularFrom(t, v, ScanLines(data), ScanHeader(ScanLines(data), 1, <<>>))

\* decodeInline(data, rv) for rv pointing to a value v of type t.
decodeInline(data, t, v) ==
    LET Pairs(tt, tv, parsed) ==
            IF parsed.err THEN Res("err", tv) ELSE ApplyPairs(tt, tv, parsed.pairs, 1, TRUE)
    IN  IF t.k = "ptr" THEN PtrRes(Pairs(t.e, Deref(t, v), parse(data)))
        ELSE Pairs(t, v, parse(data))

\* decode(v): rv is the target handed to Unmarshal, a value of type t; the
\* result is how the call ends and the target afterwards. The trimmed text
\* is tabular after "#" or "%", else inline.
decode(data0, t, rv) ==
    IF t.k # "ptr" \/ rv.k # "ptr" THEN Res("err", rv)
    ELSE IF Len(TrimSpace(data0)) = 0 THEN Res("ok", rv)
    ELSE IF TrimSpace(data0)[1] \in {"#", "%"}
    THEN PtrRes(decodeTabular(TrimSpace(data0), t.e, rv.p))
    ELSE PtrRes(decodeInline(TrimSpace(data0), t.e, rv.p))

(***************************************************************************)
(* The values marshalled: the record types of the package's tests and      *)
(* README, with field values drawn from small sets.                        *)
(***************************************************************************)

\* The largest number of rows of a generated slice.
MaxRows == 2

\* type User struct { ID int `zoon:"id"`; Name string `zoon:"name"`;
\*                    Role string `zoon:"role"`; Active bool `zoon:"active"` }
UserT ==
    TStruct(<< Fld(<<"I", "D">>, <<"i", "d">>, TInt), Fld(<<"N", "a", "m", "e">>, <<"n", "a", "m", "e">>, TString),
               Fld(<<"R", "o", "l", "e">>, <<"r", "o", "l", "e">>, TString), Fld(<<"A", "c", "t", "i", "v", "e">>, <<"a", "c", "t", "i", "v", "e">>, TBool) >>)

User(id, name, role, active) == StructV(<<IntV(id), StrV(name), StrV(role), BoolV(active)>>)

\* The three users of TestTabular and the two users of the README.
TestUsers ==
    SliceV(<< User(1, <<"A", "l", "i", "c", "e">>, <<"A", "d", "m", "i", "n">>, TRUE), User(2, <<"B", "o", "b">>, <<"U", "s", "e", "r">>, TRUE),
              User(3, <<"C", "a", "r", "o", "l">>, <<"U", "s", "e", "r">>, FALSE) >>)

ReadmeUsers ==
    SliceV(<< User(1, <<"A", "l", "i", "c", "e">>, <<"A", "d", "m", "i", "n">>, TRUE), User(2, <<"B", "o", "b">>, <<"U", "s", "e", "r">>, FALSE) >>)

\* A flat record of primitive fields, declared in the order id, name, active.
ItemT ==
    TStruct(<< Fld(<<"I", "D">>, <<"i", "d">>, TInt), Fld(<<"N", "a", "m", "e">>, <<"n", "a", "m", "e">>, TString),
               Fld(<<"A", "c", "t", "i", "v", "e">>, <<"a", "c", "t", "i", "v", "e">>, TBool) >>)

\* String values: plain, with a space, empty, and reading like a number.
NameVals == {<<"a", "b">>, <<"a", " ", "b">>, <<>>, <<"1", "2">>}

IdVals == 1..MaxRows

Items == {StructV(<<IntV(id), StrV(name), BoolV(active)>>) :
              id \in IdVals, name \in NameVals, active \in BOOLEAN}

ItemSlices ==
    {SliceV(rows) : rows \in UNION {[1..n -> Items] : n \in 1..MaxRows}}

\* type Row struct { Name string `zoon:"name"`; Email *string `zoon:"email"` }
RowT == TStruct(<< Fld(<<"N", "a", "m", "e">>, <<"n", "a", "m", "e">>, TString), Fld(<<"E", "m", "a", "i", "l">>, <<"e", "m", "a", "i", "l">>, TPtr(TString)) >>)

\* A text long enough to make a two-row column free text even when the
\* other row holds the one-character null marker.
LongText == [i \in 1..(2 * TextAvgLen + 1) |-> "x"]

EmailVals == {NilV, PtrV(StrV(<<"a", "@", "b">>)), PtrV(StrV(LongText))}

Rows == {StructV(<<StrV(name), email>>) : name \in {<<"a", "b">>, <<"c", "d">>}, email \in EmailVals}

RowSlices == {SliceV(rows) : rows \in UNION {[1..n -> Rows] : n \in 1..MaxRows}}

\* The word of n times the character c.
Word(c, n) == [i \in 1..n |-> c]

\* The rows of the given names and emails (<<>> for a nil Email).
EnumRows(names, emails) ==
    SliceV([i \in 1..Len(names) |->
               StructV(<<StrV(names[i]), IF emails[i] = <<>> THEN NilV ELSE PtrV(StrV(emails[i]))>>)])

\* Slices whose columns have few distinct values in more rows: short and
\* long values, costs on either side of the threshold and on it, and null
\* values among the distinct ones.
EnumSlices ==
    { EnumRows(<<<<"a">>, <<"b">>, <<"c">>, <<"a">>>>, <<<<"p">>, <<"q">>, <<"r">>, <<"s">>>>),
      EnumRows(<<Word("a", 12), Word("b", 12), Word("c", 12), Word("a", 12)>>, <<<<"p">>, <<"q">>, <<"r">>, <<"s">>>>),
      EnumRows(<<Word("a", 10), Word("b", 10), Word("c", 11), Word("a", 10)>>, <<<<"p">>, <<"q">>, <<"r">>, <<"s">>>>),
      EnumRows(<<Word("a", 10), Word("b", 10), Word("c", 10), Word("a", 10)>>, <<<<"p">>, <<"q">>, <<"r">>, <<"s">>>>),
      EnumRows(<<Word("a", 11), Word("b", 11), Word("c", 11), Word("c", 11)>>, <<<<"p">>, <<"q">>, <<"r">>, <<"s">>>>),
      EnumRows(<<<<"a", "b">>, <<"c", "d">>, <<"a", "b">>, <<"c", "d">>>>, <<<<"p">>, <<"q">>, <<"r">>, <<"s">>>>),
      EnumRows(<<<<"a">>, <<"b">>, <<"c">>, <<"d">>>>, <<<<"p">>, <<"q">>, <<"r">>, <<>>>>),
      EnumRows(<<<<"a">>, <<"b">>, <<"c">>, <<"d">>, <<"e">>>>, <<<<"p">>, <<"q">>, <<"r">>, <<>>, <<"p">>>>),
      EnumRows(<<<<"a">>, <<"b">>, <<"c">>>>, <<<<"p">>, <<>>, <<"p">>>>) }

\* Slices of map[string]any whose nested maps give the paths prefixes worth
\* an alias: server and status, of equal score and with the same first
\* letter; infrastructure and infrastructure.postgres, both matching the
\* paths under the second.
AliasSlices ==
    { SliceV([i \in 1..2 |->
          MapV(<<"s", "e", "r", "v", "e", "r">> :> MapV(<<"a">> :> IntV(i) @@ <<"b">> :> IntV(i + 2) @@ <<"c">> :> IntV(i + 4))
               @@ <<"s", "t", "a", "t", "u", "s">> :> MapV(<<"a">> :> IntV(i) @@ <<"b">> :> IntV(i + 2) @@ <<"c">> :> IntV(i + 4)))]),
      SliceV([i \in 1..2 |->
          MapV(<<"i", "n", "f", "r", "a", "s", "t", "r", "u", "c", "t", "u", "r", "e">> :>
                   MapV(<<"p", "o", "s", "t", "g", "r", "e", "s">> :> MapV(<<"p", "o", "r", "t">> :> IntV(i) @@ <<"s", "i", "z", "e">> :> IntV(i + 2))
                        @@ <<"r", "e", "d", "i", "s">> :> MapV(<<"p", "o", "r", "t">> :> IntV(i + 4))))]) }

\* type Node struct { Val string `zoon:"v"`; Next *Node `zoon:"next"` },
\* the recursive type unrolled as far as the values below reach.
LeafT == TStruct(<< Fld(<<"V", "a", "l">>, <<"v">>, TString) >>)

InnerNodeT == TStruct(<< Fld(<<"V", "a", "l">>, <<"v">>, TString), Fld(<<"N", "e", "x", "t">>, <<"n", "e", "x", "t">>, TPtr(LeafT)) >>)

NodeT == TStruct(<< Fld(<<"V", "a", "l">>, <<"v">>, TString), Fld(<<"N", "e", "x", "t">>, <<"n", "e", "x", "t">>, TPtr(InnerNodeT)) >>)

Nodes ==
    {StructV(<<StrV(val), next>>) :
        val \in {<<"h", "e", "a", "d">>, <<"a", " ", "b">>},
        next \in {NilV, PtrV(StructV(<<StrV(<<"t", "a", "i", "l">>), NilV>>))}}

\* type ServerConfig struct { Host string `zoon:"host"`; Port int `zoon:"port"`;
\*                            SSL bool `zoon:"ssl"` }
ServerConfigT ==
    TStruct(<< Fld(<<"H", "o", "s", "t">>, <<"h", "o", "s", "t">>, TString), Fld(<<"P", "o", "r", "t">>, <<"p", "o", "r", "t">>, TInt),
               Fld(<<"S", "S", "L">>, <<"s", "s", "l">>, TBool) >>)

\* Host names: the tests' ones, and strings with a space, with an
\* underscore, empty, and reading like a number, a boolean or the null marker.
HostVals == {<<"l", "o", "c", "a", "l", "h", "o", "s", "t">>, <<"a", " ", "b">>, <<"a", "_", "b">>, <<>>, <<"1", "2">>, <<"y">>, <<"~">>}

ServerConfigs ==
    {StructV(<<StrV(host), IntV(port), BoolV(ssl)>>) :
        host \in HostVals, port \in {0, 3000}, ssl \in BOOLEAN}

\* The tests' Config with its Server field, a nested ServerConfig, and a
\* record one level deeper, type Deploy struct { Config Config `zoon:"config"` }.
ConfigT == TStruct(<< Fld(<<"S", "e", "r", "v", "e", "r">>, <<"s", "e", "r", "v", "e", "r">>, ServerConfigT) >>)

Configs == {StructV(<<sc>>) : sc \in ServerConfigs}

DeployT == TStruct(<< Fld(<<"C", "o", "n", "f", "i", "g">>, <<"c", "o", "n", "f", "i", "g">>, ConfigT) >>)

Deploys == {StructV(<<c>>) : c \in Configs}

\* type Status struct { State string `zoon:"state"` }
\* type Infra struct { Postgres Status `zoon:"postgres"`; Redis Status `zoon:"redis"` }
\* type System struct { Infrastructure Infra `zoon:"infrastructure"` }
StatusT == TStruct(<< Fld(<<"S", "t", "a", "t", "e">>, <<"s", "t", "a", "t", "e">>, TString) >>)

InfraT == TStruct(<< Fld(<<"P", "o", "s", "t", "g", "r", "e", "s">>, <<"p", "o", "s", "t", "g", "r", "e", "s">>, StatusT), Fld(<<"R", "e", "d", "i", "s">>, <<"r", "e", "d", "i", "s">>, StatusT) >>)

SystemT == TStruct(<< Fld(<<"I", "n", "f", "r", "a", "s", "t", "r", "u", "c", "t", "u", "r", "e">>, <<"i", "n", "f", "r", "a", "s", "t", "r", "u", "c", "t", "u", "r", "e">>, InfraT) >>)

StateVals == {<<"u", "p">>, <<"d", "o", "w", "n">>, <<"1", "2">>}

System(pg, rd) == StructV(<< StructV(<< StructV(<<StrV(pg)>>), StructV(<<StrV(rd)>>) >>) >>)

Systems == {System(pg, rd) : pg \in StateVals, rd \in StateVals}

SystemSlices == {SliceV(rows) : rows \in UNION {[1..n -> Systems] : n \in 1..MaxRows}}

(***************************************************************************)
(* The state machine: a value is marshalled, and the text is unmarshalled  *)
(* into an empty target of the same type.                                  *)
(*   pc      "start" -> "encoded" -> "decoded"                             *)
(*   gotype  the static type of the value                                  *)
(*   input   the value handed to Marshal                                   *)
(*   doc     the text Marshal returned                                     *)
(*   target  the pointer handed to Unmarshal                               *)
(*   err     how the last call ended: "ok", "err" or "panic"               *)
(*   locals  the locals of decodeTabular while it is followed line by      *)
(*           line, NoCall otherwise                                        *)
(***************************************************************************)

NoCall == [phase |-> "NONE"]

Start(t, v) ==
    /\ pc = "start"
    /\ gotype = t
    /\ input = v
    /\ doc = <<>>
    /\ target = PtrV(Zero(t))
    /\ err = "ok"
    /\ locals = NoCall

Init ==
    \/ \E v \in {TestUsers, ReadmeUsers} : Start(TSlice(UserT), v)
    \/ \E v \in ItemSlices : Start(TSlice(ItemT), v)
    \/ \E v \in RowSlices \cup EnumSlices : Start(TSlice(RowT), v)
    \/ \E v \in SystemSlices : Start(TSlice(SystemT), v)
    \/ \E v \in AliasSlices : Start(TSlice(TMap(TAny)), v)
    \/ \E v \in Nodes : Start(NodeT, v)
    \/ \E v \in ServerConfigs : Start(ServerConfigT, v)
    \/ \E v \in Configs : Start(ConfigT, v)
    \/ \E v \in Deploys : Start(DeployT, v)

\* Marshal(input): the error of encode, or one of the texts it may write.
Marshal ==
    LET Returned(r) ==
            IF r.err # ""
            THEN /\ err' = "err"
                 /\ doc' = <<>>
            ELSE /\ err' = "ok"
                 /\ \E out \in r.out : doc' = out
    IN  /\ pc = "start"
        /\ Returned(encode(gotype, input))
        /\ pc' = "encoded"
        /\ UNCHANGED <<gotype, input, target, locals>>

\* Unmarshal(doc, target): how decode ended and the target after it.
Unmarshal ==
    LET Decoded(r) ==
            /\ err' = r.st
            /\ target' = r.v
    IN  /\ pc = "encoded"
        /\ err = "ok"
        /\ Decoded(decode(doc, TPtr(gotype), target))
        /\ pc' = "decoded"
        /\ UNCHANGED <<gotype, input, doc, locals>>

Next == Marshal \/ Unmarshal

Spec == Init /\ [][Next]_vars

(***************************************************************************)
(* Decoding on its own: a text written by hand is unmarshalled into a      *)
(* target that may be a nil pointer, empty, or filled by an earlier call.  *)
(*   pc      "encoded" -> "decoded"                                        *)
(*   input   stays NilV: nothing was marshalled                            *)
(***************************************************************************)

\* The texts decoded.
Docs ==
    { \* the input of TestDecodeSimpleTabular, and the i+ column elsewhere
      <<"#", " ", "i", "d", ":", "i", "+", " ", "n", "a", "m", "e", ":", "s", " ", "r", "o", "l", "e", ":", "s", " ", "a", "c", "t", "i", "v", "e", ":", "b", "\n", "A", "l", "i", "c", "e", " ", "A", "d", "m", "i", "n", " ", "1", "\n", "B", "o", "b", " ", "U", "s", "e", "r", " ", "0">>,
      <<"#", " ", "n", "a", "m", "e", ":", "s", " ", "i", "d", ":", "i", "+", " ", "r", "o", "l", "e", ":", "s", " ", "a", "c", "t", "i", "v", "e", ":", "b", "\n", "A", "l", "i", "c", "e", " ", "A", "d", "m", "i", "n", " ", "1", "\n", "B", "o", "b", " ", "U", "s", "e", "r", " ", "0">>,
      <<"#", " ", "n", "a", "m", "e", ":", "s", " ", "r", "o", "l", "e", ":", "s", " ", "a", "c", "t", "i", "v", "e", ":", "b", " ", "i", "d", ":", "i", "+", "\n", "A", "l", "i", "c", "e", " ", "A", "d", "m", "i", "n", " ", "1", "\n", "B", "o", "b", " ", "U", "s", "e", "r", " ", "0", "\n", "C", "a", "r", "o", "l", " ", "U", "s", "e", "r", " ", "1">>,
      \* no header line; a line that is no alias line before the header
      <<"%", "a", "=", "b">>, <<"%", "a", "=", "b", "\n", "\n", "%", "c", "=", "d">>, <<"%", "a", "=", "b", "\n", "f", "o", "o", "\n", "#", " ", "i", "d", ":", "i", " ", "n", "a", "m", "e", ":", "s", "\n", "1", " ", "A">>, <<"%", "=", "a">>, <<"%", "a", "=", "b", " ", "=", "c">>, <<"%", "a", "=", "b", " ", "=", "c", "\n", "#", " ", "i", "d", ":", "i">>,
      \* header lines: no blank after "#", only "#", tokens without separator
      <<"#", "i", "d", ":", "i", "+", " ", "n", "a", "m", "e", ":", "s", "\n", "A", "\n", "B">>, <<"#", " ", "i", "d", ":", "i", "+", " ", "n", "a", "m", "e", ":", "s", "\n", "A", "\n", "B">>, <<"#">>, <<"#", " ", "i", "d", ":", "i", " ", "n", "a", "m", "e", "\n", "1", " ", "2">>, <<"#", " ", " ", "i", "d", ":", "i", " ", " ", " ", "n", "a", "m", "e", "=", "A", "|", "B", "\n", "7", " ", "B">>,
      \* explicit row counts, with and without lines after the header
      <<"#", " ", "@", "r", "o", "l", "e", "=", "x", " ", "i", "d", ":", "i", "+", " ", "+", "2">>, <<"#", " ", "@", "r", "o", "l", "e", "=", "x", " ", "i", "d", ":", "i", "+", " ", "+", "2", "\n", "z", "z", "z", "\n", "y", "y", "y">>, <<"#", " ", "n", "a", "m", "e", ":", "s", " ", "i", "d", ":", "i", "+", " ", "+", "2", "\n", "A", "\n", "B">>, <<"#", " ", "i", "d", ":", "i", "+", " ", "+", "x", " ", "+", "1", " ", "@", "a", "c", "t", "i", "v", "e", ":", "y">>,
      \* unknown columns, unparsable numbers, short rows, odd alias lines
      <<"#", " ", "i", "d", ":", "i", " ", "n", "a", "m", "e", ":", "s", "\n", "1", " ", "A", "\n", "2", " ", "B">>, <<"#", " ", "i", "d", ":", "i", " ", "n", "o", "p", "e", ":", "s", " ", "n", "a", "m", "e", ":", "s", "\n", "1", " ", "q", " ", "A", "\n", "2", " ", "r", " ", "B">>, <<"#", " ", "i", "d", ":", "i", " ", "n", "a", "m", "e", ":", "s", "\n", "x", " ", "A", "\n", "2", " ", "B">>, <<"#", " ", "i", "d", ":", "i", " ", "n", "a", "m", "e", ":", "s", "\n", "0", " ", "A", "\n", "2", " ", "B">>,
      <<"#", " ", "i", "d", ":", "i", " ", "n", "a", "m", "e", ":", "s", " ", "r", "o", "l", "e", ":", "s", "\n", "1", " ", "A", "\n", "2", " ", "B", " ", "R">>, <<"#", " ", "i", "d", ":", "i", " ", "n", "a", "m", "e", ":", "s", " ", "r", "o", "l", "e", ":", "s", "\n", "1", " ", "A", " ", "~", "\n", "2", " ", "B", " ", "R">>, <<"%", "x", "\n", "#", " ", "i", "d", ":", "i", " ", "n", "a", "m", "e", ":", "s", "\n", "1", " ", "A", "\n", "2", " ", "B">>,
      <<"#", " ", "i", "d", ":", "i", " ", "n", "a", "m", "e", ".", "x", ":", "s", "\n", "1", " ", "q">>,
      \* lines after the header that look like alias or header lines
      <<"%", "s", "=", "s", "e", "r", "v", "e", "r", "\n", "#", " ", "%", "s", ".", "h", "o", "s", "t", ":", "s", " ", "%", "s", ".", "p", "o", "r", "t", ":", "i", "\n", "h", " ", "1", "\n", "%", "s", "=", "z", "z", "z", "\n", "#", " ", "x", ":", "i", "\n", "k", " ", "2">>, <<"#", " ", "i", "d", ":", "i", " ", "n", "a", "m", "e", ":", "s", "\n", "#", " ", "2", "\n", "%", " ", "3">>,
      \* indexed and literal enums, quoted text
      <<"#", " ", "i", "d", ":", "i", " ", "n", "a", "m", "e", ":", "s", " ", "r", "o", "l", "e", "!", "A", "d", "m", "i", "n", "|", "U", "s", "e", "r", "|", "G", "u", "e", "s", "t", " ", "a", "c", "t", "i", "v", "e", ":", "b", "\n", "5", " ", "A", "l", "_", "i", "c", "e", " ", "0", " ", "1", "\n", "6", " ", "B", "o", "b", " ", "2", " ", "0", "\n", "7", " ", "X", " ", "9", " ", "y">>,
      <<"#", " ", "n", "a", "m", "e", ":", "t", " ", "i", "d", ":", "i", "\n", "\"", "a", " ", "b", " ", "\\", "\"", " ", "c", "\"", " ", "3", "\n", "[", "1", ",", " ", "2", "]", " ", "5">>,
      \* tokens that open a quote, a bracket or a brace and never close it
      <<"#", " ", "i", "d", ":", "i", " ", "n", "a", "m", "e", ":", "s", "\n", "1", " ", "\"">>, <<"#", " ", "i", "d", ":", "i", " ", "n", "a", "m", "e", ":", "s", "\n", "\"">>, <<"#", " ", "i", "d", ":", "i", " ", "n", "a", "m", "e", ":", "s", "\n", "1", " ", "\"", "A">>, <<"#", " ", "i", "d", ":", "i", " ", "n", "a", "m", "e", ":", "s", "\n", "1", " ", "[", "a">>,
      <<"#", " ", "i", "d", ":", "i", " ", "n", "a", "m", "e", ":", "s", "\n", "1", " ", "{">>, <<"n", "a", "m", "e", ":", "{">>, <<"n", "a", "m", "e", ":", "{", "b", ":", "1">>,
      \* dotted paths
      <<"#", " ", "a", ".", "b", ":", "i", " ", "a", ".", "c", ":", "s", "\n", "1", " ", "z", "\n", "2", " ", "w">>, <<"a", ".", "b", ":", "1", " ", "a", ".", "c", "=", "z">>, <<"a", ".", "b", ":", "1">>, <<"a", ":", "{", "b", ":", "1", " ", "c", "=", "z", "}">>,
      \* inline texts: the fields of a record, unknown keys, other spellings
      <<"h", "o", "s", "t", "=", "l", "o", "c", "a", "l", "_", "h", "o", "s", "t", " ", "p", "o", "r", "t", ":", "3", "0", "0", "0", " ", "s", "s", "l", ":", "y">>, <<"h", "o", "s", "t", "=", "h", " ", "n", "o", "p", "e", ":", "1", " ", "p", "o", "r", "t", ":", "3", "0", "0", "0">>, <<"h", "o", "s", "t", "=", "h", " ", "p", "o", "r", "t", ":", "3", "0", "0", "0">>, <<"H", "O", "S", "T", "=", "h", " ", "P", "o", "r", "t", ":", "x">>,
      <<"i", "d", ":", "7", " ", "n", "a", "m", "e", "=", "A">>, <<"i", "d", ":", "7", " ", "n", "o", "p", "e", ":", "1", " ", "n", "a", "m", "e", "=", "A">>, <<"t", "i", "t", "l", "e", "=", "x">>, <<"T", "I", "T", "L", "E", "=", "x", " ", "l", "a", "b", "e", "l", "=", "w">>, <<"n", "a", "m", "e", "=", "m", " ", "t", "i", "t", "l", "e", "=", "u">>, <<"L", "A", "B", "E", "L", "=", "z">>, <<"k", "e", "y">>, <<>> }

\* type Lookup struct { Title string `zoon:"label"`; Name string `zoon:"title"` }:
\* a field whose Go name is another field's tag.
LookupT == TStruct(<< Fld(<<"T", "i", "t", "l", "e">>, <<"l", "a", "b", "e", "l">>, TString), Fld(<<"N", "a", "m", "e">>, <<"t", "i", "t", "l", "e">>, TString) >>)

\* The types of the targets: the records of the tests, a pointer element, a
\* map[string]any and slices of them.
DecodeTypes ==
    {TSlice(UserT), TSlice(TPtr(UserT)), TSlice(ItemT), TSlice(TMap(TAny)), TSlice(ServerConfigT),
     TMap(TAny), ServerConfigT, ItemT, LookupT, UserT}

\* What an earlier call may have left in a target of the type.
Earlier(t) ==
    IF t = TSlice(UserT) THEN {SliceV(<< User(1, <<"Z", "e", "d">>, <<"O", "l", "d">>, TRUE), User(2, <<"Y", "a", "n">>, <<"O", "l", "d">>, TRUE) >>)}
    ELSE IF t = TMap(TAny) THEN {MapV(<<"a">> :> MapV(<<"c">> :> StrV(<<"o", "l", "d">>)))}
    ELSE IF t = ServerConfigT THEN {StructV(<<StrV(<<"o", "l", "d">>), IntV(1), BoolV(TRUE)>>)}
    ELSE {}

\* The targets handed to Unmarshal: a nil pointer, a pointer to the zero
\* value, a pointer to what an earlier call left.
DecodeTargets(t) == {NilV, PtrV(Zero(t))} \cup {PtrV(v) : v \in Earlier(t)}

DecodeInit ==
    /\ pc = "encoded"
    /\ gotype \in DecodeTypes
    /\ input = NilV
    /\ doc \in Docs
    /\ target \in DecodeTargets(gotype)
    /\ err = "ok"
    /\ locals = NoCall

SpecDecode == DecodeInit /\ [][Unmarshal]_vars

(***************************************************************************)
(* decodeTabular line by line: the scanner loop up to the header, the      *)
(* header, the rows of an explicit row count, the scanner loop of the data *)
(* lines.                                                                  *)
(*   pc      "tabular" -> "decoded"                                        *)
(*   locals  phase      "ALIASES" -> "HEADER" -> "ROWS"                    *)
(*           at         the index of the line the scanner returns next     *)
(*           aliases    the alias table                                    *)
(*           headerLine the header line, once found                        *)
(*           hdr        headers, constants, explicitRows                   *)
(*           synth      the rows of the explicit row count still to make   *)
(*           autoIncID  the counter of the i+ columns                      *)
(***************************************************************************)

\* The lines the scanner returns.
Lines == ScanLines(TrimSpace(doc))

\* The locals on entry.
Entered ==
    [phase |-> "ALIASES", at |-> 1, aliases |-> <<>>, headerLine |-> <<>>,
     hdr |-> [headers |-> <<>>, constants |-> <<>>, explicitRows |-> -1],
     synth |-> 0, autoIncID |-> 0]

\* decodeTabular returns st (or panics, for "panic").
Return(st) ==
    /\ pc' = "decoded"
    /\ err' = st

\* The slice of the target and the counter, as processRow reads them.
RowState ==
    [st |-> "ok", et |-> gotype.e, autoIncID |-> locals.autoIncID,
     rows |-> IF target.p.k = "nil" THEN <<>> ELSE target.p.e]

\* The slice and the counter after processRow; its error is returned.
AfterRow(r, next) ==
    /\ target' = PtrV(IF r.rows = <<>> /\ target.p.k = "nil" THEN target.p ELSE SliceV(r.rows))
    /\ IF r.st # "ok"
       THEN Return(r.st) /\ locals' = [locals EXCEPT !.autoIncID = r.autoIncID]
       ELSE /\ locals' = [next EXCEPT !.autoIncID = r.autoIncID]
            /\ UNCHANGED <<pc, err>>

\* One turn of the first scanner loop: a blank line is passed over, a % line
\* defines aliases, a # line is the header, any other line is an error.
ScanLine ==
    LET line == TrimSpace(Lines[locals.at])
        Defined(defs) ==
            IF defs.panic THEN Return("panic") /\ UNCHANGED locals
            ELSE /\ locals' = [locals EXCEPT !.at = @ + 1, !.aliases = defs.aliases]
                 /\ UNCHANGED <<pc, err>>
    IN  /\ pc = "tabular" /\ locals.phase = "ALIASES" /\ locals.at <= Len(Lines)
        /\ IF line = <<>>
           THEN locals' = [locals EXCEPT !.at = @ + 1] /\ UNCHANGED <<pc, err>>
           ELSE IF HasPrefix(line, <<"%">>)
           THEN Defined(AliasDefs(Fields(line), locals.aliases))
           ELSE IF HasPrefix(line, <<"#">>)
           THEN /\ locals' = [locals EXCEPT !.at = @ + 1, !.headerLine = line, !.phase = "HEADER"]
                /\ UNCHANGED <<pc, err>>
           ELSE Return("err") /\ UNCHANGED locals
        /\ UNCHANGED <<gotype, input, doc, target>>

\* The scanner ends before a header line is found.
MissingHeader ==
    /\ pc = "tabular" /\ locals.phase = "ALIASES" /\ locals.at > Len(Lines)
    /\ Return("err")
    /\ UNCHANGED <<gotype, input, doc, target, locals>>

\* The header line is parsed and the slice is cut to length 0.
ParseHeaderLine ==
    LET Parsed(hdr) ==
            [locals EXCEPT !.hdr = hdr, !.phase = "ROWS",
                           !.synth = IF hdr.explicitRows > 0 THEN hdr.explicitRows ELSE 0]
    IN  /\ pc = "tabular" /\ locals.phase = "HEADER"
        /\ IF Len(locals.headerLine) < 2 THEN Return("panic") /\ UNCHANGED <<target, locals>>
           ELSE IF gotype.k # "slice" THEN Return("err") /\ UNCHANGED <<target, locals>>
           ELSE /\ locals' = Parsed(ParseHeader(locals.headerLine, locals.aliases))
                /\ target' = PtrV(IF target.p.k = "nil" THEN target.p ELSE SliceV(<<>>))
                /\ UNCHANGED <<pc, err>>
        /\ UNCHANGED <<gotype, input, doc>>

\* One row of the explicit row count: processRow(nil).
SynthesizeRow ==
    /\ pc = "tabular" /\ locals.phase = "ROWS" /\ locals.synth > 0
    /\ AfterRow(processRow(RowState, locals.hdr, <<>>), [locals EXCEPT !.synth = @ - 1])
    /\ UNCHANGED <<gotype, input, doc>>

\* One turn of the second scanner loop with a % line taken for an alias
\* line, as before the header: not what the second loop does.
DataLineAliases ==
    LET line == TrimSpace(Lines[locals.at])
        Defined(defs) ==
            IF defs.panic THEN Return("panic") /\ UNCHANGED <<target, locals>>
            ELSE /\ locals' = [locals EXCEPT !.at = @ + 1, !.aliases = defs.aliases]
                 /\ UNCHANGED <<pc, err, target>>
        Tokenized(toks) ==
            IF toks.panic THEN Return("panic") /\ UNCHANGED <<target, locals>>
            ELSE AfterRow(processRow(RowState, locals.hdr, toks.tokens), [locals EXCEPT !.at = @ + 1])
    IN  /\ pc = "tabular" /\ locals.phase = "ROWS" /\ locals.synth = 0
        /\ locals.at <= Len(Lines)
        /\ IF line = <<>>
           THEN locals' = [locals EXCEPT !.at = @ + 1] /\ UNCHANGED <<pc, err, target>>
           ELSE IF HasPrefix(line, <<"%">>)
           THEN Defined(AliasDefs(Fields(line), locals.aliases))
           ELSE Tokenized(tokenizeRow(line))
        /\ UNCHANGED <<gotype, input, doc>>

\* One turn of the second scanner loop: a blank line is passed over, the
\* tokens of any other line make a row.
DataLine ==
    LET line == TrimSpace(Lines[locals.at])
        Tokenized(toks) ==
            IF toks.panic THEN Return("panic") /\ UNCHANGED <<target, locals>>
            ELSE AfterRow(processRow(RowState, locals.hdr, toks.tokens), [locals EXCEPT !.at = @ + 1])
    IN  /\ pc = "tabular" /\ locals.phase = "ROWS" /\ locals.synth = 0
        /\ locals.at <= Len(Lines)
        /\ IF line = <<>>
           THEN locals' = [locals EXCEPT !.at = @ + 1] /\ UNCHANGED <<pc, err, target>>
           ELSE Tokenized(tokenizeRow(line))
        /\ UNCHANGED <<gotype, input, doc>>

\* The scanner ends after the header: decodeTabular returns nil.
Finish ==
    /\ pc = "tabular" /\ locals.phase = "ROWS" /\ locals.synth = 0
    /\ locals.at > Len(Lines)
    /\ Return("ok")
    /\ UNCHANGED <<gotype, input, doc, target, locals>>

\* decode has found the target a non-nil pointer and the text, its blanks
\* trimmed, to start with # or %.
LinesInit ==
    /\ pc = "tabular"
    /\ gotype \in DecodeTypes
    /\ input = NilV
    /\ doc \in {d \in Docs : TrimSpace(d) # <<>> /\ Head(TrimSpace(d)) \in {"#", "%"}}
    /\ target \in DecodeTargets(gotype) \ {NilV}
    /\ err = "ok"
    /\ locals = Entered

LinesNext == ScanLine \/ MissingHeader \/ ParseHeaderLine \/ SynthesizeRow \/ DataLine \/ Finish

SpecLines == LinesInit /\ [][LinesNext]_vars

(***************************************************************************)
(* Reading the written text: its lines, the tokens of its header, and what *)
(* the value handed to Marshal says they should be.                        *)
(***************************************************************************)

DocLines == Split(doc, "\n")

\* The header is the second line when an alias line comes first.
HeaderIndex == IF HasPrefix(DocLines[1], <<"%">>) THEN 2 ELSE 1

HeaderTokens == Split(DocLines[HeaderIndex], " ")

\* The data lines: what follows the header, without the empty part after
\* the last line feed.
DataLines == [i \in 1..(Len(DocLines) - HeaderIndex - 1) |-> DocLines[HeaderIndex + i]]

NonBlankLines ==
    LET NonBlank(line) == line # <<>>
    IN  SelectSeq(DocLines, NonBlank)

IsColumnToken(tok) == tok # <<"#">> /\ ~HasPrefix(tok, <<"@">>) /\ ~HasPrefix(tok, <<"+">>)

ColumnTokens == SelectSeq(HeaderTokens, IsColumnToken)

TokenName(tok) == Slice(tok, 0, IndexAny(tok, {":", "=", "!"}))

TokenCode(tok) == From(tok, IndexAny(tok, {":", "=", "!"}))

ColumnNames == [c \in 1..Len(ColumnTokens) |-> TokenName(ColumnTokens[c])]

Underscored(s) == ReplaceAll(s, " ", <<"_">>)

Spaced(s) == ReplaceAll(s, "_", <<" ">>)

\* Records of primitive fields only.
IsFlatRecords == gotype \in {TSlice(ItemT), TSlice(UserT)}

FieldCount == Len(gotype.e.f)

FieldPath(j) == gotype.e.f[j].tag

FieldOf(path) == CHOOSE j \in 1..FieldCount : FieldPath(j) = path

\* Field j holds the same value in every row of an input of several rows.
SameInEveryRow(j) ==
    /\ Len(input.e) > 1
    /\ \A i \in 1..Len(input.e) : input.e[i].f[j] = input.e[1].f[j]

\* The token a data line holds for a primitive value.
ValueToken(v) ==
    IF v.k = "bool" THEN (IF v.b THEN <<"1">> ELSE <<"0">>)
    ELSE IF v.k = "int" THEN Itoa(v.i)
    ELSE Underscored(v.s)

IsWritten(tok) == TokenCode(tok) # <<":", "i", "+">>

WrittenColumns == SelectSeq(ColumnTokens, IsWritten)

ExpectedDataLine(i) ==
    Join([c \in 1..Len(WrittenColumns) |->
              ValueToken(input.e[i].f[FieldOf(TokenName(WrittenColumns[c]))])], <<" ">>)

CanonicalText ==
    <<"#", " ", "a", "c", "t", "i", "v", "e", ":", "b", " ", "i", "d", ":", "i", "+", " ", "n", "a", "m", "e", ":", "s", " ", "r", "o", "l", "e", "=", "A", "d", "m", "i", "n", "|", "U", "s", "e", "r">> \o <<"\n">> \o <<"1", " ", "A", "l", "i", "c", "e", " ", "A", "d", "m", "i", "n">> \o <<"\n">>
    \o <<"1", " ", "B", "o", "b", " ", "U", "s", "e", "r">> \o <<"\n">> \o <<"0", " ", "C", "a", "r", "o", "l", " ", "U", "s", "e", "r">> \o <<"\n">>

(***************************************************************************)
(* C1: Tabular round-trip: every non-empty slice of flat records with      *)
(* integer, boolean and string fields (any string, also the empty one and  *)
(* one that reads like a number), marshalled and unmarshalled into an      *)
(* empty slice of the same type, gives no error and a slice equal to the   *)
(* original.                                                               *)
(***************************************************************************)
C1_TabularRoundTrip ==
    (pc = "decoded" /\ gotype = TSlice(ItemT)) => (err = "ok" /\ target = PtrV(input))

(***************************************************************************)
(* C2: Null property: in inline and in tabular form, a field holding a nil *)
(* pointer is always written as the token ~, and a field read from the     *)
(* token ~ is left nil, never a zero-valued object.                        *)
(***************************************************************************)
EmailToken(i) == Split(DataLines[i], " ")[1]

C2_NullProperty ==
    /\ (pc # "start" /\ gotype = TSlice(RowT)) =>
           \A i \in 1..Len(input.e) : input.e[i].f[2] = NilV => EmailToken(i) = <<"~">>
    /\ (pc # "start" /\ gotype = NodeT /\ input.f[2] = NilV) => HasSuffix(doc, <<" ", "n", "e", "x", "t", ":", "~">>)
    /\ (pc = "decoded" /\ gotype = TSlice(RowT)) =>
           /\ err = "ok"
           /\ \A i \in 1..Len(target.p.e) :
                  (i <= Len(DataLines) /\ EmailToken(i) = <<"~">>) => target.p.e[i].f[2] = NilV
    /\ (pc = "decoded" /\ gotype = NodeT /\ input.f[2] = NilV) =>
           (err = "ok" /\ target.p.f[2] = NilV)

(***************************************************************************)
(* C3: Underscore law: a string field is written with every space replaced *)
(* by an underscore (inline as key=value) and reads back as exactly the    *)
(* original string when that holds no underscore; an underscore of the     *)
(* original reads back as a space.                                         *)
(***************************************************************************)
C3_UnderscoreLaw ==
    /\ (pc # "start" /\ gotype = ServerConfigT) =>
           HasPrefix(doc, <<"h", "o", "s", "t", "=">> \o Underscored(input.f[1].s) \o <<" ">>)
    /\ (pc = "decoded" /\ gotype = ServerConfigT) =>
           (err = "ok" /\ target.p.f[1] = StrV(Spaced(input.f[1].s)))
    /\ (pc = "decoded" /\ gotype = TSlice(ItemT) /\ Len(target.p.e) = Len(input.e)) =>
           \A i \in 1..Len(input.e) : target.p.e[i].f[2] = StrV(Spaced(input.e[i].f[2].s))

(***************************************************************************)
(* C4: Constant hoisting: of an input of more than one row, a path is      *)
(* written as a header constant (@path=value for a string, @path:value     *)
(* otherwise) and is no column exactly when its value is the same in every *)
(* row; of one row nothing is hoisted; and every row read back holds each  *)
(* constant's value at its path.                                           *)
(***************************************************************************)
ExpectedConstant(j) ==
    LET v == input.e[1].f[j]
    IN  <<"@">> \o FieldPath(j) \o
        (IF v.k = "str" THEN <<"=">> \o Underscored(v.s)
         ELSE IF v.k = "bool" THEN (IF v.b THEN <<":", "y">> ELSE <<":", "n">>)
         ELSE <<":">> \o Itoa(v.i))

IsConstantOf(tok, j) == HasPrefix(tok, <<"@">>) /\ TokenName(Tail(tok)) = FieldPath(j)

C4_ConstantHoisting ==
    /\ (pc # "start" /\ gotype = TSlice(ItemT)) =>
           \A j \in 1..FieldCount :
               /\ SameInEveryRow(j) <=>
                      \E t \in 1..Len(HeaderTokens) : HeaderTokens[t] = ExpectedConstant(j)
               /\ SameInEveryRow(j) <=>
                      \E t \in 1..Len(HeaderTokens) : IsConstantOf(HeaderTokens[t], j)
               /\ SameInEveryRow(j) <=>
                      ~\E c \in 1..Len(ColumnNames) : ColumnNames[c] = FieldPath(j)
    /\ (pc = "decoded" /\ gotype = TSlice(ItemT)) =>
           /\ err = "ok"
           /\ \A r \in 1..Len(target.p.e) : \A j \in 1..FieldCount :
                  SameInEveryRow(j) => target.p.e[r].f[j] = input.e[1].f[j]

(***************************************************************************)
(* C5: Auto-increment with the row count: when the id column of N rows     *)
(* holds 1..N and every other path is a constant, the header ends in +N    *)
(* and no data line is written; the text reads back as exactly N rows, the *)
(* ids 1..N in order, each row holding the header constants.               *)
(***************************************************************************)
AllGenerated ==
    /\ gotype = TSlice(ItemT)
    /\ \A i \in 1..Len(input.e) : input.e[i].f[1] = IntV(i)
    /\ SameInEveryRow(2)
    /\ SameInEveryRow(3)

C5_RowCountShorthand ==
    /\ (pc # "start" /\ AllGenerated) =>
           /\ HeaderTokens[Len(HeaderTokens)] = <<"+">> \o Itoa(Len(input.e))
           /\ DataLines = <<>>
    /\ (pc = "decoded" /\ AllGenerated) =>
           /\ err = "ok"
           /\ Len(target.p.e) = Len(input.e)
           /\ \A i \in 1..Len(target.p.e) :
                  /\ target.p.e[i].f[1] = IntV(i)
                  /\ target.p.e[i].f[2] = input.e[1].f[2]
                  /\ target.p.e[i].f[3] = input.e[1].f[3]

(***************************************************************************)
(* C8: Inline nested round-trip: a record of nested records with string,   *)
(* integer and boolean leaves is written as one line of space-separated    *)
(* pairs in declaration order, a nested record as key:{...}, a string as   *)
(* key=value, a boolean as key:y or key:n, another value as key:value,     *)
(* without a line feed at the end; the line reads back into an empty       *)
(* record of the same type as a structure equal to the original.  (Strings *)
(* holding an underscore are left aside: they read back with a space.)     *)
(***************************************************************************)
ServerPairs(sc) ==
    <<"h", "o", "s", "t", "=">> \o Underscored(sc.f[1].s) \o <<" ", "p", "o", "r", "t", ":">> \o Itoa(sc.f[2].i)
    \o (IF sc.f[3].b THEN <<" ", "s", "s", "l", ":", "y">> ELSE <<" ", "s", "s", "l", ":", "n">>)

ServerOf(v) == IF gotype = DeployT THEN v.f[1].f[1] ELSE v.f[1]

NoUnderscore(s) == \A i \in 1..Len(s) : s[i] # "_"

C8_InlineNestedRoundTrip ==
    /\ (pc # "start" /\ gotype = ConfigT) =>
           doc = <<"s", "e", "r", "v", "e", "r", ":", "{">> \o ServerPairs(input.f[1]) \o <<"}">>
    /\ (pc # "start" /\ gotype = DeployT) =>
           doc = <<"c", "o", "n", "f", "i", "g", ":", "{", "s", "e", "r", "v", "e", "r", ":", "{">> \o ServerPairs(input.f[1].f[1]) \o <<"}", "}">>
    /\ (pc = "decoded" /\ gotype \in {ConfigT, DeployT} /\ NoUnderscore(ServerOf(input).f[1].s)) =>
           (err = "ok" /\ target = PtrV(input))

(***************************************************************************)
(* C9: Alias emission: over the dotted paths of the document, active and   *)
(* constant, an alias definition %alias=prefix is written exactly for the  *)
(* proper path prefixes whose score                                        *)
(* (len(prefix) - 2) * count - (len(prefix) + 4) is positive, count being  *)
(* the number of paths sharing the prefix, and every alias is a single     *)
(* character; so the prefix infrastructure of the paths                    *)
(* infrastructure.postgres.state and infrastructure.redis.state gets an    *)
(* alias line.                                                             *)
(***************************************************************************)
AliasTokens == IF HeaderIndex = 2 THEN Split(DocLines[1], " ") ELSE <<>>

AliasOf(tok) == Slice(tok, 1, Index(tok, "="))

PrefixOf(tok) == From(tok, Index(tok, "=") + 1)

RecordPaths == {<<"i", "n", "f", "r", "a", "s", "t", "r", "u", "c", "t", "u", "r", "e", ".", "p", "o", "s", "t", "g", "r", "e", "s", ".", "s", "t", "a", "t", "e">>, <<"i", "n", "f", "r", "a", "s", "t", "r", "u", "c", "t", "u", "r", "e", ".", "r", "e", "d", "i", "s", ".", "s", "t", "a", "t", "e">>}

ProperPrefixes(path) == {Slice(path, 0, i - 1) : i \in {i \in 1..Len(path) : path[i] = "."}}

Sharing(prefix) == {path \in RecordPaths : HasPrefix(path, prefix \o <<".">>)}

Score(prefix) == (Len(prefix) - 2) * Cardinality(Sharing(prefix)) - (Len(prefix) + 4)

Worthwhile == {prefix \in UNION {ProperPrefixes(path) : path \in RecordPaths} : Score(prefix) > 0}

C9_AliasEmission ==
    (pc # "start" /\ gotype = TSlice(SystemT)) =>
        /\ {PrefixOf(AliasTokens[t]) : t \in 1..Len(AliasTokens)} = Worthwhile
        /\ \A t \in 1..Len(AliasTokens) :
               HasPrefix(AliasTokens[t], <<"%">>) /\ Len(AliasOf(AliasTokens[t])) = 1

(***************************************************************************)
(* C10: Alias round-trip: every header name written as %alias<suffix> is   *)
(* expanded by the decoder, with the document's own alias definitions, to  *)
(* the original dotted path, so that a document written with aliases reads *)
(* back as the same nested field values as the original rows; and no two   *)
(* prefixes of one document share an alias token.                          *)
(***************************************************************************)
DecoderAliases == ScanHeader(ScanLines(doc), 1, <<>>).aliases

HeaderNames ==
    {TokenName(IF HasPrefix(HeaderTokens[t], <<"@">>) THEN Tail(HeaderTokens[t]) ELSE HeaderTokens[t]) :
         t \in {t \in 1..Len(HeaderTokens) :
                    HeaderTokens[t] # <<"#">> /\ ~HasPrefix(HeaderTokens[t], <<"+">>)}}

C10_AliasRoundTrip ==
    /\ (pc # "start" /\ gotype = TSlice(SystemT)) =>
           /\ {Unalias(name, DecoderAliases) : name \in HeaderNames} = RecordPaths
           /\ \A a, b \in 1..Len(AliasTokens) :
                  AliasOf(AliasTokens[a]) = AliasOf(AliasTokens[b]) => a = b
    /\ (pc = "decoded" /\ gotype = TSlice(SystemT)) => (err = "ok" /\ target = PtrV(input))

TextLines ==
    LET lines == Split(TrimSpace(doc), "\n")
    IN  [i \in 1..Len(lines) |-> TrimSpace(lines[i])]

\* The text is in tabular form: it starts with # or %.
IsTabularText == TrimSpace(doc) # <<>> /\ Head(TrimSpace(doc)) \in {"#", "%"}

\* The index of the first line starting with #, 0 when there is none.
FirstHeaderLine ==
    LET S == {i \in 1..Len(TextLines) : HasPrefix(TextLines[i], <<"#">>)}
    IN  IF S = {} THEN 0 ELSE CHOOSE i \in S : \A j \in S : i <= j

\* A non-blank line starting with neither % nor # comes before any header.
StrayLineBeforeHeader ==
    \E i \in 1..Len(TextLines) :
        /\ TextLines[i] # <<>>
        /\ ~HasPrefix(TextLines[i], <<"%">>)
        /\ ~HasPrefix(TextLines[i], <<"#">>)
        /\ (FirstHeaderLine = 0 \/ i < FirstHeaderLine)

StructuralError ==
    \/ target = NilV
    \/ IsTabularText /\ (FirstHeaderLine = 0 \/ StrayLineBeforeHeader)

(***************************************************************************)
(* C11: Structural decode errors leave the target untouched: when the      *)
(* target is no non-nil pointer, when a tabular text has no # header line, *)
(* or when a non-blank line starting with neither % nor # comes before the *)
(* header, decode returns an error and the target is exactly what it was   *)
(* before the call.                                                        *)
(***************************************************************************)
C11_StructuralErrors ==
    [][(pc = "encoded" /\ StructuralError) => (err' = "err" /\ target' = target)]_vars

\* The tokens of the header line: what follows its #.
HeaderLineTokens == Fields(Tail(TextLines[FirstHeaderLine]))

\* The row count the header declares with +N, -1 when it declares none.
DeclaredRows ==
    LET counts == SelectSeq(HeaderLineTokens,
                            LAMBDA tok : HasPrefix(tok, <<"+">>) /\ Atoi(Tail(tok)).ok)
    IN  IF counts = <<>> THEN -1 ELSE Atoi(Tail(counts[Len(counts)])).n

\* The non-blank lines after the header line.
LinesAfterHeader ==
    SelectSeq(SubSeq(TextLines, FirstHeaderLine + 1, Len(TextLines)), LAMBDA line : line # <<>>)

\* The rows the target holds.
DecodedRows == IF target.p.k = "slice" THEN target.p.e ELSE <<>>

\* A tabular text with a header has been decoded into a slice.
TabularDecoded ==
    /\ pc = "decoded" /\ err = "ok"
    /\ gotype.k = "slice" /\ IsTabularText /\ FirstHeaderLine # 0

(***************************************************************************)
(* C12: Explicit row count on decode: if the header declares +N, the       *)
(* decoded sequence holds exactly N rows, each built only from the         *)
(* constants and the auto-increment columns, whatever lines follow the     *)
(* header (they are the rows of the header line decoded alone); data lines *)
(* are consumed one per row only when no row count was declared.           *)
(***************************************************************************)
C12_ExplicitRowCount ==
    TabularDecoded =>
        IF DeclaredRows > 0
        THEN /\ Len(DecodedRows) = DeclaredRows
             /\ target = decode(TextLines[FirstHeaderLine], TPtr(gotype), PtrV(Zero(gotype))).v
        ELSE Len(DecodedRows) = Len(LinesAfterHeader)

(***************************************************************************)
(* The string columns of a slice of Row: name (field 1), email (field 2).  *)
(***************************************************************************)
RowColumns == {1, 2}

ColumnName(f) == IF f = 1 THEN <<"n", "a", "m", "e">> ELSE <<"e", "m", "a", "i", "l">>

\* The value of column f in row r as it is serialized, ~ for a nil pointer.
Cell(r, f) ==
    LET v == input.e[r].f[f]
    IN  IF v.k = "nil" THEN <<"~">> ELSE IF v.k = "ptr" THEN v.p.s ELSE v.s

RowCount == Len(input.e)

\* The distinct non-null values of column f.
Distinct(f) == {Cell(r, f) : r \in 1..RowCount} \ {<<"~">>}

\* The distinct values of column f, the null marker counting as one.
DistinctOrNull(f) == Cardinality({Cell(r, f) : r \in 1..RowCount})

\* The column is no constant: its rows do not all hold the same value.
IsActiveColumn(f) == DistinctOrNull(f) > 1

\* The position of column f among the header tokens, 0 when it has none.
TokenIndex(f) ==
    LET S == {i \in 1..Len(HeaderTokens) :
                 /\ HasPrefix(HeaderTokens[i], ColumnName(f))
                 /\ Len(HeaderTokens[i]) > Len(ColumnName(f))
                 /\ HeaderTokens[i][Len(ColumnName(f)) + 1] \in {":", "=", "!"}}
    IN  IF S = {} THEN 0 ELSE CHOOSE i \in S : TRUE

\* The separator of the header token of column f and what follows it.
TokenSep(f) == HeaderTokens[TokenIndex(f)][Len(ColumnName(f)) + 1]

TokenOptions(f) == Split(From(HeaderTokens[TokenIndex(f)], Len(ColumnName(f)) + 1), "|")

\* The token of column f in data line r: the columns follow the header
\* tokens, of which the first is the #.
CellToken(r, f) ==
    Split(DataLines[r], " ")[Cardinality({i \in 2..TokenIndex(f) : IsColumnToken(HeaderTokens[i])})]

\* Column f is an enum of its distinct values, written with the separator.
IsEnum(f, sep) ==
    /\ TokenIndex(f) # 0
    /\ TokenSep(f) = sep
    /\ {TokenOptions(f)[i] : i \in 1..Len(TokenOptions(f))} = Distinct(f)
    /\ Len(TokenOptions(f)) = Cardinality(Distinct(f))

\* Literal enum: the rows hold the values.
IsLiteralEnum(f) ==
    IsEnum(f, "=") /\ \A r \in 1..RowCount : CellToken(r, f) = Cell(r, f)

\* Indexed enum: the rows hold the index of their value in the list.
IsIndexedEnum(f) ==
    /\ IsEnum(f, "!")
    /\ \A r \in 1..RowCount :
           \E i \in 1..Len(TokenOptions(f)) :
               TokenOptions(f)[i] = Cell(r, f) /\ CellToken(r, f) = Itoa(i - 1)

SumOfLengths(S) == SumLen(SortStrings(S))

\* length(join(distinct values, "|")) + rowCount * 2
IndexCost(f) == SumOfLengths(Distinct(f)) + Cardinality(Distinct(f)) - 1 + RowCount * 2

\* avgLen * rowCount > indexCost with avgLen the average of the lengths.
LiteralCostsMore(f) ==
    SumOfLengths(Distinct(f)) * RowCount > IndexCost(f) * Cardinality(Distinct(f))

\* The same with avgLen the whole part of the average, as the integers of
\* the code have it.
LiteralCostsMoreWhole(f) ==
    (SumOfLengths(Distinct(f)) \div Cardinality(Distinct(f))) * RowCount > IndexCost(f)

RowsWritten == pc # "start" /\ gotype = TSlice(RowT) /\ err = "ok"

IsAutoToken(tok) == HasSuffix(tok, <<":", "i", "+">>) /\ Len(tok) > 3

\* The auto-increment columns the header declares, by name.
AutoColumns ==
    LET toks == SelectSeq(HeaderLineTokens, IsAutoToken)
    IN  {Slice(toks[i], 0, Len(toks[i]) - 3) : i \in 1..Len(toks)}

\* The text without the auto-increment tokens of its header line.
TextWithoutAuto ==
    LET lines == Split(TrimSpace(doc), "\n")
        header == <<"#", " ">> \o Join(SelectSeq(HeaderLineTokens, LAMBDA tok : ~IsAutoToken(tok)), <<" ">>)
    IN  Join([i \in 1..Len(lines) |-> IF i = FirstHeaderLine THEN header ELSE lines[i]], <<"\n">>)

\* Row k of the target, through the pointer of a pointer element.
DecodedRow(k) == IF DecodedRows[k].k = "ptr" THEN DecodedRows[k].p ELSE DecodedRows[k]

\* The record type of the rows.
RowType == IF gotype.e.k = "ptr" THEN gotype.e.e ELSE gotype.e

\* The index of the field of the record type that a column name selects.
RowField(name) == findField(RowType, name)

\* The rows decoded from the text without its auto-increment tokens.
RowsWithoutAuto == decode(TextWithoutAuto, TPtr(gotype), PtrV(Zero(gotype))).v.p

(***************************************************************************)
(* C14: Auto-increment counter: in every decode call an i+ column consumes *)
(* no row token and the k-th decoded row (k = 1, 2, ...) receives the      *)
(* value k from a counter that starts at 1 in each call, whatever an       *)
(* earlier call left in the target; the tokens of the remaining columns    *)
(* are taken left to right, unaffected by the position of the i+ column:   *)
(* the rows are those of the text without the i+ column, with k in the     *)
(* field of the i+ column.                                                 *)
(***************************************************************************)
C14_AutoIncrement ==
    (TabularDecoded /\ RowType.k = "struct" /\ AutoColumns = {<<"i", "d">>} /\ RowField(<<"i", "d">>) > 0) =>
        /\ DecodedRows # <<>>
        /\ Len(DecodedRows) = Len(RowsWithoutAuto.e)
        /\ \A k \in 1..Len(DecodedRows) :
               /\ DecodedRow(k).f[RowField(<<"i", "d">>)] = IntV(k)
               /\ DecodedRow(k) =
                      [(IF gotype.e.k = "ptr" THEN RowsWithoutAuto.e[k].p ELSE RowsWithoutAuto.e[k])
                          EXCEPT !.f[RowField(<<"i", "d">>)] = IntV(k)]

(***************************************************************************)
(* Reading an inline text of plain pairs: no braces, no dotted keys.       *)
(***************************************************************************)
InlineTokens == Fields(TrimSpace(doc))

IsPlainInline ==
    /\ ~IsTabularText
    /\ \A i \in 1..Len(doc) : doc[i] \notin {"{", "}", ".", "\""}
    /\ \A i \in 1..Len(InlineTokens) : IndexAny(InlineTokens[i], {":", "="}) > 0

PairKey(tok) == Slice(tok, 0, IndexAny(tok, {":", "="}))

PairSep(tok) == tok[IndexAny(tok, {":", "="}) + 1]

PairText(tok) == From(tok, IndexAny(tok, {":", "="}) + 1)

\* The first index of a sequence of booleans that holds, 0 when none does.
FirstOf(hits) ==
    IF \E i \in 1..Len(hits) : hits[i]
    THEN CHOOSE i \in 1..Len(hits) : hits[i] /\ \A j \in 1..(i - 1) : ~hits[j]
    ELSE 0

\* The field a lookup name selects when the tags are tried first, then the
\* names, both ignoring case; 0 when nothing matches.
TagFirstField(t, name) ==
    LET byTag == FirstOf([i \in 1..Len(t.f) |-> t.f[i].tag # <<>> /\ EqualFold(Split(t.f[i].tag, ",")[1], name)])
    IN  IF byTag # 0 THEN byTag ELSE FirstOf([i \in 1..Len(t.f) |-> EqualFold(t.f[i].name, name)])

\* The pairs of the text that select field i, in the order of the text.
PairsOf(t, i) == SelectSeq(InlineTokens, LAMBDA tok : TagFirstField(t, PairKey(tok)) = i)

(***************************************************************************)
(* C15: Field lookup on decode is case-insensitive and tag-first: for a    *)
(* lookup name, a field whose tag matches (ignoring case) is selected in   *)
(* preference to any field matched only by its name, regardless of the     *)
(* declaration order; only if no tag matches is the field whose name       *)
(* matches (ignoring case) selected; and if nothing matches the assignment *)
(* is skipped without error. So after decoding an inline text of plain     *)
(* pairs into a record, a string field holds the text of the last key=text *)
(* pair that selects it and a field that no pair selects is unchanged.     *)
(***************************************************************************)
C15_FieldLookup ==
    [][(pc = "encoded" /\ gotype.k = "struct" /\ target # NilV /\ IsPlainInline) =>
          /\ err' = "ok"
          /\ \A i \in 1..Len(gotype.f) :
                 LET pairs == PairsOf(gotype, i)
                     last == pairs[Len(pairs)]
                 IN  /\ pairs = <<>> => target'.p.f[i] = target.p.f[i]
                     /\ (pairs # <<>> /\ gotype.f[i].t = TString /\ PairSep(last) = "=") =>
                            target'.p.f[i] = StrV(Spaced(PairText(last)))]_vars

(***************************************************************************)
(* Reading texts whose keys or column names are dotted paths a.b.          *)
(***************************************************************************)
IsDottedPair(tok) ==
    /\ IndexAny(tok, {":", "="}) > 2
    /\ Len(Split(PairKey(tok), ".")) = 2
    /\ \A i \in 1..Len(tok) : tok[i] \notin {"{", "}", "\"", "@", "+", "%"}

\* An inline text of pairs a.b:number and a.b=text.
IsDottedInline ==
    /\ ~IsTabularText /\ InlineTokens # <<>>
    /\ \A i \in 1..Len(InlineTokens) : IsDottedPair(InlineTokens[i])

\* A tabular text of columns a.b:i and a.b:s.
IsDottedTabular ==
    /\ IsTabularText /\ FirstHeaderLine = 1 /\ HeaderLineTokens # <<>>
    /\ \A i \in 1..Len(HeaderLineTokens) :
           IsDottedPair(HeaderLineTokens[i]) /\ PairText(HeaderLineTokens[i]) \in {<<"i">>, <<"s">>}

\* The value a pair a.b:number or a.b=text assigns.
PairAssigns(sep, text) == IF sep = "=" THEN StrV(Spaced(text)) ELSE IntV(Atoi(text).n)

\* The generic map m holds the value at m[a][b].
HoldsAt(m, path, val) ==
    /\ m.k = "map"
    /\ path[1] \in DOMAIN m.m
    /\ m.m[path[1]].k = "map"
    /\ path[2] \in DOMAIN m.m[path[1]].m
    /\ m.m[path[1]].m[path[2]] = val

\* The last pair of the inline text with the key of pair i is pair i.
IsLastOfKey(i) ==
    \A j \in (i + 1)..Len(InlineTokens) : PairKey(InlineTokens[j]) # PairKey(InlineTokens[i])

\* What the nested maps of m held is still there, unless a pair assigns it.
NestedKept(m, m1) ==
    \A a \in DOMAIN m.m :
        m.m[a].k = "map" =>
            \A b \in DOMAIN m.m[a].m :
                (\A i \in 1..Len(InlineTokens) : PairKey(InlineTokens[i]) # a \o <<".">> \o b) =>
                    HoldsAt(m1, <<a, b>>, m.m[a].m[b])

(***************************************************************************)
(* C16: Deep-path assignment into maps: assigning a dotted path a.b        *)
(* (inline key or tabular column name) into a generic string-keyed map     *)
(* reuses the nested map under a if it exists and otherwise creates an     *)
(* empty generic map and inserts it under a; after the assignment the      *)
(* target holds the value at target[a][b], and assignments of several      *)
(* paths sharing the prefix a all end up in the same nested map.           *)
(***************************************************************************)
C16_DeepPathIntoMaps ==
    [][/\ (pc = "encoded" /\ gotype = TMap(TAny) /\ target # NilV /\ IsDottedInline) =>
              /\ err' = "ok"
              /\ target.p.k = "map" => NestedKept(target.p, target'.p)
              /\ \A i \in 1..Len(InlineTokens) :
                     IsLastOfKey(i) =>
                         HoldsAt(target'.p, Split(PairKey(InlineTokens[i]), "."),
                                 PairAssigns(PairSep(InlineTokens[i]), PairText(InlineTokens[i])))
       /\ (pc = "encoded" /\ gotype = TSlice(TMap(TAny)) /\ target # NilV /\ IsDottedTabular) =>
              /\ err' = "ok"
              /\ Len(target'.p.e) = Len(LinesAfterHeader)
              /\ \A k \in 1..Len(LinesAfterHeader) :
                     \A c \in 1..Len(HeaderLineTokens) :
                         HoldsAt(target'.p.e[k], Split(PairKey(HeaderLineTokens[c]), "."),
                                 PairAssigns(IF PairText(HeaderLineTokens[c]) = <<"s">> THEN "=" ELSE ":",
                                             Fields(LinesAfterHeader[k])[c]))]_vars

(***************************************************************************)
(* Reading the header line as the format describes it.                     *)
(***************************************************************************)
\* The header line of the text.
HeaderLineText == TextLines[FirstHeaderLine]

\* The aliases the lines before the header define.
HeaderAliases == ScanHeader(ScanLines(TrimSpace(doc)), 1, <<>>).aliases

\* A token with a separator after its name.
IsDeclaration(tok) ==
    ~HasPrefix(tok, <<"+">>)
    /\ IndexAny(IF HasPrefix(tok, <<"@">>) THEN Tail(tok) ELSE tok, {":", "=", "!"}) # -1

\* The name of a column token or, without its @, of a constant token: the
\* text before the first separator, its alias expanded.
DeclaredName(tok) ==
    LET part == IF HasPrefix(tok, <<"@">>) THEN Tail(tok) ELSE tok
    IN  Unalias(Slice(part, 0, IndexAny(part, {":", "=", "!"})), HeaderAliases)

\* The names of the columns and of the constants the header line declares.
DeclaredColumns ==
    LET toks == SelectSeq(HeaderLineTokens, LAMBDA tok : IsDeclaration(tok) /\ ~HasPrefix(tok, <<"@">>))
    IN  [i \in 1..Len(toks) |-> DeclaredName(toks[i])]

DeclaredConstants ==
    LET toks == SelectSeq(HeaderLineTokens, LAMBDA tok : IsDeclaration(tok) /\ HasPrefix(tok, <<"@">>))
    IN  [i \in 1..Len(toks) |-> DeclaredName(toks[i])]

\* The text with a blank put after the # of its header line.
SpacedHeaderText ==
    LET lines == Split(TrimSpace(doc), "\n")
    IN  Join([i \in 1..Len(lines) |->
                 IF i = FirstHeaderLine THEN <<"#", " ">> \o Tail(HeaderLineText) ELSE lines[i]], <<"\n">>)

NamesOf(fields) == [i \in 1..Len(fields) |-> fields[i].name]

\* A tabular text whose header line is reached has been handed to a target.
HeaderDecoded ==
    /\ pc = "decoded" /\ target # NilV
    /\ IsTabularText /\ FirstHeaderLine # 0 /\ ~StrayLineBeforeHeader

(***************************************************************************)
(* C17: Header tokenization: the header's tokens are the whitespace-       *)
(* separated tokens of all text following the leading #, so a header whose *)
(* first token follows # with no space yields the same column descriptors  *)
(* (and so the same rows) as the header with a space; each token is        *)
(* classified as +int (row count), @name<sep>value (constant) or           *)
(* name<sep>typeSpec (column), the name being the text before the first :, *)
(* = or !.                                                                 *)
(***************************************************************************)
C17_HeaderTokenization ==
    (HeaderDecoded /\ err # "panic") =>
        /\ ParseHeader(HeaderLineText, HeaderAliases) = ParseHeader(<<"#", " ">> \o Tail(HeaderLineText), HeaderAliases)
        /\ NamesOf(ParseHeader(HeaderLineText, HeaderAliases).headers) = DeclaredColumns
        /\ NamesOf(ParseHeader(HeaderLineText, HeaderAliases).constants) = DeclaredConstants
        /\ ParseHeader(HeaderLineText, HeaderAliases).explicitRows = DeclaredRows
        /\ err = decode(SpacedHeaderText, TPtr(gotype), PtrV(Zero(gotype))).st
        /\ err = "ok" => target = decode(SpacedHeaderText, TPtr(gotype), PtrV(Zero(gotype))).v

(***************************************************************************)
(* The text without its anomalies: the tokens of the alias lines that have *)
(* no = removed, the columns and keys that name no field of the target     *)
(* removed with their row tokens, an unparsable token of an i column       *)
(* replaced by 0, and a short row filled up with null markers.             *)
(***************************************************************************)
\* A text of plain tokens: no quoted or bracketed token, no dotted name.
IsPlainText == \A i \in 1..Len(doc) : doc[i] \notin {"\"", "[", "]", "{", "}", "."}

\* The record type the names of the text are looked up in, if any.
LookupType ==
    IF gotype.k = "struct" THEN gotype
    ELSE IF gotype.k = "slice" /\ gotype.e.k = "struct" THEN gotype.e
    ELSE IF gotype.k = "slice" /\ gotype.e.k = "ptr" THEN gotype.e.e
    ELSE TMap(TAny)

\* The name is that of no field of the target.
IsUnknownName(name) == LookupType.k = "struct" /\ TagFirstField(LookupType, name) = 0

\* The header tokens that declare a column, and those of them that take a
\* token of each row.
HeaderColumns == SelectSeq(HeaderLineTokens, LAMBDA tok : IsDeclaration(tok) /\ ~HasPrefix(tok, <<"@">>))

TokenColumns == SelectSeq(HeaderColumns, LAMBDA tok : ~IsAutoToken(tok))

IsUnknownColumn(tok) == IsUnknownName(Slice(tok, 0, IndexAny(tok, {":", "=", "!"})))

\* Token c of a row, the null marker when the row is too short.
TokenAt(toks, c) == IF c <= Len(toks) THEN toks[c] ELSE <<"~">>

\* The token as an i column takes it.
AsInt(tok) == IF tok = <<"~">> \/ Atoi(tok).ok THEN tok ELSE <<"0">>

\* The row tokens of the known columns, in the order of the columns.
RECURSIVE NormalTokens(_, _)
NormalTokens(toks, c) ==
    IF c > Len(TokenColumns) THEN <<>>
    ELSE (IF IsUnknownColumn(TokenColumns[c]) THEN <<>>
          ELSE IF HasSuffix(TokenColumns[c], <<":", "i">>) THEN <<AsInt(TokenAt(toks, c))>>
          ELSE <<TokenAt(toks, c)>>)
         \o NormalTokens(toks, c + 1)

NormalLine(i) ==
    IF TextLines[i] = <<>> THEN <<>>
    ELSE IF i < FirstHeaderLine
    THEN Join(SelectSeq(Fields(TextLines[i]), LAMBDA tok : Index(tok, "=") # -1), <<" ">>)
    ELSE IF i = FirstHeaderLine
    THEN IF \A c \in 1..Len(HeaderColumns) : ~IsUnknownColumn(HeaderColumns[c])
         THEN TextLines[i]
         ELSE <<"#", " ">> \o Join(SelectSeq(HeaderLineTokens,
                                     LAMBDA tok : ~(IsDeclaration(tok) /\ ~HasPrefix(tok, <<"@">>)
                                                    /\ IsUnknownColumn(tok))), <<" ">>)
    ELSE Join(NormalTokens(Fields(TextLines[i]), 1), <<" ">>)

NormalText ==
    IF IsTabularText
    THEN Join([i \in 1..Len(TextLines) |-> NormalLine(i)], <<"\n">>)
    ELSE Join(SelectSeq(InlineTokens, LAMBDA tok : ~IsUnknownName(PairKey(tok))), <<" ">>)

\* The text is a plain one with an anomaly: an inline text of pairs, or a
\* tabular one with a column that names a field and takes a token, whose
\* rows have no more tokens than the header has columns.
HasAnomaly ==
    /\ IsPlainText
    /\ IF IsTabularText
       THEN /\ FirstHeaderLine # 0 /\ ~StrayLineBeforeHeader
            /\ gotype.k = "slice"
            /\ \E c \in 1..Len(TokenColumns) : ~IsUnknownColumn(TokenColumns[c])
            /\ \A i \in (FirstHeaderLine + 1)..Len(TextLines) :
                   Len(Fields(TextLines[i])) <= Len(TokenColumns)
       ELSE gotype.k = "struct" /\ IsPlainInline
    /\ NormalText # TrimSpace(doc)
    /\ Fields(NormalText) # Fields(TrimSpace(doc))

PhaseRank(phase) == IF phase = "ALIASES" THEN 1 ELSE IF phase = "HEADER" THEN 2 ELSE 3

\* The line the scanner returns next, without the blanks around it.
NextLine == TrimSpace(Lines[locals.at])

\* The rows of the slice of a target.
RowsOf(t) == IF t.p.k = "slice" THEN t.p.e ELSE <<>>

(***************************************************************************)
(* C19: Tabular decode is a one-way line state machine ALIASES -> HEADER   *)
(* -> ROWS: alias definitions are accepted only on % lines before the      *)
(* header, the first line starting with # is the only header, and every    *)
(* non-blank line after it is consumed as a data row (even if it starts    *)
(* with % or #); once the header has been parsed, the alias table and the  *)
(* header field descriptors never change while rows are processed, and the *)
(* phase never goes backwards.                                             *)
(***************************************************************************)
C19_LineStateMachine ==
    [][pc = "tabular" =>
          /\ PhaseRank(locals'.phase) \in {PhaseRank(locals.phase), PhaseRank(locals.phase) + 1}
          /\ locals'.aliases # locals.aliases =>
                 locals.phase = "ALIASES" /\ HasPrefix(NextLine, <<"%">>)
          /\ locals'.headerLine # locals.headerLine =>
                 /\ locals.phase = "ALIASES" /\ locals'.phase = "HEADER"
                 /\ locals.at = FirstHeaderLine
                 /\ locals'.headerLine = HeaderLineText
          /\ locals'.hdr # locals.hdr => locals.phase = "HEADER"
          /\ locals.phase = "ROWS" =>
                 /\ locals'.aliases = locals.aliases
                 /\ locals'.hdr = locals.hdr
                 /\ locals'.headerLine = locals.headerLine
          /\ (locals.phase = "ROWS" /\ locals.synth = 0 /\ locals.at <= Len(Lines)
              /\ NextLine # <<>> /\ pc' = "tabular") =>
                 /\ locals'.at = locals.at + 1
                 /\ Len(RowsOf(target')) = Len(RowsOf(target)) + 1
          /\ (locals.phase = "ROWS" /\ pc' = "decoded" /\ err' = "ok") => locals.at > Len(Lines)]_vars

\* A text with a % line and a # line after its header has been decoded:
\* its alias table is as the header found it and each line is a row.
C19_Witness ==
    /\ pc = "decoded" /\ err = "ok" /\ locals # NoCall
    /\ locals.phase = "ROWS"
    /\ locals.aliases # <<>>
    /\ \E i \in (FirstHeaderLine + 1)..Len(TextLines) : HasPrefix(TextLines[i], <<"%">>)
    /\ \E i \in (FirstHeaderLine + 1)..Len(TextLines) : HasPrefix(TextLines[i], <<"#">>)
    /\ Len(RowsOf(target)) = Len(LinesAfterHeader)
    /\ Len(LinesAfterHeader) = 4

(***************************************************************************)
(* C20: Encoding is deterministic: two Marshal calls on equal values       *)
(* produce byte-identical text, for every input, maps, several constants   *)
(* and texts with several alias prefixes of equal score or matching the    *)
(* same path included: the text Marshal returned is the only text Marshal  *)
(* can return for the value, whatever the iteration order of its maps.     *)
(***************************************************************************)
C20_DeterministicEncoding ==
    (pc = "encoded" /\ err = "ok") => \A out \in encode(gotype, input).out : out = doc

(***************************************************************************)
(* C21: Decode never crashes: for every input text and every non-nil       *)
(* pointer target, decode returns nil or an error value, and no step reads *)
(* a string outside its bounds; a header line that is only #, a data row   *)
(* with an unterminated " or [ token, an alias-line token that begins with *)
(* = and an inline value that is a lone { are among the texts.             *)
(***************************************************************************)
C21_DecodeNeverCrashes ==
    [][(pc = "encoded" /\ target # NilV) => err' \in {"ok", "err"}]_vars

====
